---- MODULE Spec2Model ----
(***************************************************************************)
(* SeoulLog: hybrid retrieval (BM25 + vector search fused by Reciprocal    *)
(* Rank Fusion), the /api/search agenda aggregation, and the offline BM25  *)
(* index build.                                                            *)
(*                                                                         *)
(* Numbers.  Python floats are modelled by exact scaled integers:          *)
(*   - an RRF term 1/(k+rank+1) is RRFScale \div (k+rank+1), where         *)
(*     RRFScale is a common multiple of every denominator in range, so     *)
(*     sums and comparisons of fused scores are exact;                     *)
(*   - a cosine distance is counted in ticks of 0.00002 and a similarity   *)
(*     in ticks of 0.00001 (SimOne ticks = 1.0), so 1 - distance/2 is      *)
(*     SimOne - distance and round(x, 4) rounds to a multiple of 10;       *)
(*   - a BM25 score is the integer sum of per-term contributions.          *)
(***************************************************************************)
EXTENDS Integers, Sequences, FiniteSets, TLC

VARIABLES
    chunk_corpus,      \* BM25Retriever.chunk_corpus: the loaded chunk list
    bm25,              \* BM25Retriever.bm25: per document, per term contribution
    chroma_collection, \* the vector store's ranked answer to the query
    agendas_table,     \* agenda_ids that have a row in the SQLite agendas table
    bm25_call,         \* the last BM25Retriever.search call: locals and result
    retrieve_call,     \* the last Retriever.retrieve_documents call, likewise
    search_call,       \* the last POST /api/search: locals and response
    source_files,      \* data/result_txt/*.json as read by build_bm25_index
    build_pc,          \* where build_bm25_index stands
    build_mem,         \* its in-memory chunk_corpus / tokenized_corpus
    index_dir,         \* the two pickle files of data/bm25_index_chunk
    searcher_call,     \* the last MeetingSearcher.search call: locals and result
    chroma_status,     \* the vector collaborator: "up", "down" or "hung"
    retriever,         \* the Retriever object: its two retrievers, or None
    requests,          \* per caller, its retrieve_documents call in progress
    loader,            \* a BM25Retriever.__init__ reading the pickle files
    batch,             \* process_all_txt_files_async: its semaphore and tasks
    handler,           \* the HTTP handler that is using SQLite, where it stands
    connections,       \* the sqlite3 connections opened so far: open or closed
    agenda_build,      \* one meeting JSON file and what the two agenda builders made of it
    hybrid             \* extract_metadata_hybrid: the text, the mapping, the sections

\* What the offline jobs and the SQLite handlers work on.
offline == <<batch, handler, connections, agenda_build, hybrid>>

vars == <<chunk_corpus, bm25, chroma_collection, agendas_table, bm25_call,
          retrieve_call, search_call, source_files, build_pc, build_mem,
          index_dir, searcher_call, chroma_status, retriever, requests, loader,
          offline>>

\* The records of the last calls, and what the build and a loading
\* BM25Retriever work on.
lastCalls == <<bm25_call, retrieve_call, search_call, searcher_call>>
buildVars == <<source_files, build_pc, build_mem, index_dir, loader>>

(***************************************************************************)
(* Bounds of the model.                                                    *)
(***************************************************************************)
MaxHits == 3
MaxN == 2
MaxChunks == 2
MaxFiles == 4
MaxConcurrent == 2
MaxConnections == 4

(***************************************************************************)
(* Program constants.                                                      *)
(***************************************************************************)
DefaultK == 60
DefaultNResults == 5
CandidateFactor == 5
ChunkQueryCap == 20
ChunkQueryFactor == 4
SimOne == 100000
RoundStep == 10

\* A value no result has: the call was not made yet.
NoCall == [called |-> FALSE]
\* The callers whose retrieve_documents calls may be in progress at once.
Callers == {"c1", "c2"}
\* A caller with no call in progress.
Idle == [pc |-> "idle"]
\* No BM25Retriever is being constructed.
NoLoad == [pc |-> "start"]
\* A Retriever whose __init__ loaded both retrievers.
BothLoaded == [pc |-> "ready", chroma_searcher |-> TRUE, bm25_retriever |-> TRUE,
               failed |-> "none"]
\* A dictionary key that is not there (metadata.get(...) gives None).
Absent == "<absent>"
AbsentIndex == -1

\* No batch conversion has been started.
NoBatch == [max_concurrent |-> 0, semaphore |-> 0, tasks |-> <<>>]

(***************************************************************************)
(* Sequence helpers.                                                       *)
(***************************************************************************)
Min(a, b) == IF a <= b THEN a ELSE b
Max(a, b) == IF a >= b THEN a ELSE b

\* Python's s[:n]: the first n items, or all but the last -n for n < 0.
Take(s, n) ==
    IF n >= 0 THEN SubSeq(s, 1, Min(n, Len(s)))
    ELSE SubSeq(s, 1, Max(Len(s) + n, 0))

Range(s) == {s[i] : i \in 1..Len(s)}

SeqsUpTo(S, n) == UNION {[1..m -> S] : m \in 0..n}

RECURSIVE SumSeq(_)
SumSeq(s) == IF s = <<>> THEN 0 ELSE s[1] + SumSeq(Tail(s))

\* sorted(..., key=..., reverse=True) on items carrying their key: Python's
\* sort is stable, and with reverse=True items of equal key keep their
\* original order.  Insertion after every item whose key is >= the new key.
InsertDesc(sorted, p) ==
    LET k == Cardinality({i \in 1..Len(sorted) : sorted[i].key >= p.key})
    IN  SubSeq(sorted, 1, k) \o <<p>> \o SubSeq(sorted, k + 1, Len(sorted))

RECURSIVE SortedDesc(_)
SortedDesc(s) ==
    IF s = <<>> THEN <<>>
    ELSE InsertDesc(SortedDesc(SubSeq(s, 1, Len(s) - 1)), s[Len(s)])

(***************************************************************************)
(* BM25Retriever.search  (src/search/bm25_retriever.py)                    *)
(***************************************************************************)
Vocabulary == {"seoul"}

\* [token.form for token in kiwi.tokenize(text)]: the texts of the model and
\* the forms the tokenizer yields for each; "policy" is a form the index
\* does not know.
Queries == {"", "seoul", "policy", "seoul seoul", "seoul policy"}
Tokenize(text) ==
    CASE text = "seoul"        -> <<"seoul">>
      [] text = "policy"       -> <<"policy">>
      [] text = "seoul seoul"  -> <<"seoul", "seoul">>
      [] text = "seoul policy" -> <<"seoul", "policy">>
      [] OTHER                 -> <<>>

\* rank_bm25's get_scores: for every document the sum, over the query
\* tokens, of idf(token) * saturation(tf); a token the index does not know,
\* or that the document does not hold, contributes 0.
TermScore(doc, token) ==
    IF token \in DOMAIN bm25[doc] THEN bm25[doc][token] ELSE 0

GetScores(tokenized_query) ==
    [doc \in 1..Len(bm25) |->
        SumSeq([j \in 1..Len(tokenized_query) |->
                    TermScore(doc, tokenized_query[j])])]

\* sorted(range(len(doc_scores)), key=lambda i: doc_scores[i], reverse=True)[:n]
TopNIndices(doc_scores, n_results) ==
    LET keyed == [i \in 1..Len(doc_scores) |-> [item |-> i, key |-> doc_scores[i]]]
        order == SortedDesc(keyed)
    IN  Take([j \in 1..Len(order) |-> order[j].item], n_results)

\* chunk_info = self.chunk_corpus[i].copy(); chunk_info['score'] = score
ChunkInfo(i, score) ==
    [text          |-> chunk_corpus[i].text,
     meeting_title |-> chunk_corpus[i].meeting_title,
     chunk_index   |-> chunk_corpus[i].chunk_index,
     doc_path      |-> chunk_corpus[i].doc_path,
     score         |-> score]

\* Mutant: only a negative score skipped (if score < 0: continue).
KeepsScoreZeroToo(score) == score >= 0

\* The result loop: an index whose score is <= 0 is skipped.
KeepsScore(score) == score > 0

\* Mutant: the result loop without its score test.
FormatTopUnfiltered(top_n_indices, doc_scores) ==
    [j \in 1..Len(top_n_indices) |->
        ChunkInfo(top_n_indices[j], doc_scores[top_n_indices[j]])]

FormatTop(top_n_indices, doc_scores) ==
    LET kept == SelectSeq(top_n_indices, LAMBDA i : KeepsScore(doc_scores[i]))
    IN  [j \in 1..Len(kept) |-> ChunkInfo(kept[j], doc_scores[kept[j]])]

BM25Search(query, n_results) ==
    LET tokenized_query == Tokenize(query)
        doc_scores      == GetScores(tokenized_query)
        top_n_indices   == TopNIndices(doc_scores, n_results)
    IN  FormatTop(top_n_indices, doc_scores)

\* The same call with its locals kept beside its result.
BM25SearchCall(query, n_results) ==
    [query           |-> query,
     n_results       |-> n_results,
     tokenized_query |-> Tokenize(query),
     doc_scores      |-> GetScores(Tokenize(query)),
     results         |-> BM25Search(query, n_results)]

\* Mutant: no copy (chunk_info = self.chunk_corpus[i]).
ChunkInfoObjectAliased(i) == i

\* chunk_info = self.chunk_corpus[i].copy(): the dict a result is.  0 names a
\* new dict that belongs to the call; i > 0 would name the corpus entry at
\* position i itself.
ChunkInfoObject(i) == 0

\* The corpus positions search returns, in result order.
KeptIndices(query, n_results) ==
    LET doc_scores == GetScores(Tokenize(query))
    IN  SelectSeq(TopNIndices(doc_scores, n_results),
                  LAMBDA i : KeepsScore(doc_scores[i]))

\* The dicts the results of search are, in result order.
ResultObjects(query, n_results) ==
    LET kept == KeptIndices(query, n_results)
    IN  [j \in 1..Len(kept) |-> ChunkInfoObject(kept[j])]

\* d[field] = value on a dict
WithField(d, field, value) ==
    [g \in DOMAIN d \cup {field} |-> IF g = field THEN value ELSE d[g]]

\* The corpus after objects[j][field] = values[j] for j = 1..upto, in turn:
\* only a write to a dict that is a corpus entry shows in the corpus.
RECURSIVE WriteAll(_, _, _, _, _)
WriteAll(corpus, objects, field, values, upto) ==
    IF upto = 0 THEN corpus
    ELSE LET before == WriteAll(corpus, objects, field, values, upto - 1)
             o      == objects[upto]
         IN  IF o = 0 THEN before
             ELSE [before EXCEPT ![o] = WithField(@, field, values[upto])]

\* self.chunk_corpus after search has set chunk_info['score'] on each result.
\* objects are the dicts the results are.
CorpusAfterSearch(corpus, objects, results) ==
    WriteAll(corpus, objects, "score",
             [j \in 1..Len(results) |-> results[j].score], Len(results))

(***************************************************************************)
(* MeetingSearcher.search / _format_results  (src/utils/search_chromadb.py)*)
(***************************************************************************)
\* collection.query(n_results=n): the n nearest stored chunks, nearest first.
\* Chroma refuses a query for fewer than one result.
QueryRaises(n_results) == n_results <= 0
CollectionQuery(n_results) == Take(chroma_collection, n_results)

\* cosine_similarity = (2 - distance) / 2, clamped to [0.0, 1.0]
FormatSimilarity(distance) == Max(0, Min(SimOne, SimOne - distance))

\* metadata.get("meeting_title", "") and metadata.get("chunk_index", 0)
FormatResult(hit) ==
    [text          |-> hit.text,
     meeting_title |-> IF hit.meeting_title = Absent THEN "" ELSE hit.meeting_title,
     chunk_index   |-> IF hit.chunk_index = AbsentIndex THEN 0 ELSE hit.chunk_index,
     similarity    |-> FormatSimilarity(hit.distance)]

ChromaSearch(n_results) ==
    LET results == CollectionQuery(n_results)
    IN  [i \in 1..Len(results) |-> FormatResult(results[i])]

\* MeetingSearcher.search(query, n_results): what it returns, or that the
\* collection's query raised.
SearcherSearchCall(n_results) ==
    IF QueryRaises(n_results)
    THEN [n_results |-> n_results, outcome |-> "raised", results |-> <<>>]
    ELSE [n_results |-> n_results, outcome |-> "returned",
          results |-> ChromaSearch(n_results)]

(***************************************************************************)
(* Retriever.retrieve_documents  (src/chatbot/retriever.py)                *)
(***************************************************************************)
\* The ranks a list of the model can hold: as many as the corpus has chunks
\* or the vector store returns hits.
CorpusSize == 3
MaxRank == Max(MaxHits, CorpusSize)

RECURSIVE Product(_, _)
Product(lo, hi) == IF lo > hi THEN 1 ELSE lo * Product(lo + 1, hi)

\* A common multiple of k+1 .. k+MaxRank: the unit fused scores are counted in.
RRFScale(k) == Product(k + 1, k + MaxRank)

\* Mutant: the rank counted from 1, as enumerate(..., 1) would.
RRFTermRankFromOne(k, rank) == RRFScale(k) \div (k + rank + 2)

\* 1 / (k + rank + 1), rank counted from 0 by enumerate()
RRFTerm(k, rank) == RRFScale(k) \div (k + rank + 1)

\* if 'meeting_title' not in chunk or 'chunk_index' not in chunk: continue
HasChunkId(chunk) ==
    chunk.meeting_title # Absent /\ chunk.chunk_index # AbsentIndex

ChunkId(chunk) == <<chunk.meeting_title, chunk.chunk_index>>

\* The payload kept in chunk_store; a BM25 chunk gets similarity = score.
BM25Payload(chunk) ==
    [text |-> chunk.text, meeting_title |-> chunk.meeting_title,
     chunk_index |-> chunk.chunk_index, similarity |-> chunk.score,
     origin |-> "bm25"]

ChromaPayload(chunk) ==
    [text |-> chunk.text, meeting_title |-> chunk.meeting_title,
     chunk_index |-> chunk.chunk_index, similarity |-> chunk.similarity,
     origin |-> "chroma"]

\* Mutant: chunk_store[chunk_id] = chunk without the `not in` test; the chunk
\* seen last replaces the one stored.
FuseOneOverwrites(fused, chunk, payload, k, rank) ==
    IF ~HasChunkId(chunk) THEN fused
    ELSE LET chunk_id == ChunkId(chunk)
             at == {i \in 1..Len(fused) : fused[i].chunk_id = chunk_id}
         IN  IF at = {}
             THEN Append(fused, [chunk_id |-> chunk_id,
                                 score    |-> RRFTerm(k, rank),
                                 chunk    |-> payload])
             ELSE [i \in 1..Len(fused) |->
                     IF i \in at
                     THEN [fused[i] EXCEPT !.score = @ + RRFTerm(k, rank),
                                           !.chunk = payload]
                     ELSE fused[i]]

\* One turn of either loop.  fused is rrf_scores and chunk_store together: a
\* sequence of entries in the order their keys were inserted (a dict keeps
\* insertion order), each with its running score and its stored payload.
FuseOne(fused, chunk, payload, k, rank) ==
    IF ~HasChunkId(chunk) THEN fused
    ELSE LET chunk_id == ChunkId(chunk)
             at == {i \in 1..Len(fused) : fused[i].chunk_id = chunk_id}
         IN  IF at = {}
             THEN Append(fused, [chunk_id |-> chunk_id,
                                 score    |-> RRFTerm(k, rank),
                                 chunk    |-> payload])
             ELSE [i \in 1..Len(fused) |->
                     IF i \in at
                     THEN [fused[i] EXCEPT !.score = @ + RRFTerm(k, rank)]
                     ELSE fused[i]]

RECURSIVE FuseBM25(_, _, _, _)
FuseBM25(fused, bm25_chunks, k, upto) ==
    IF upto = 0 THEN fused
    ELSE FuseOne(FuseBM25(fused, bm25_chunks, k, upto - 1),
                 bm25_chunks[upto], BM25Payload(bm25_chunks[upto]), k, upto - 1)

\* Mutant: the vector list renumbered after the chunks without an id are
\* left out, as enumerate() over a filtered list would.
RECURSIVE FuseChromaRenumbered(_, _, _, _)
FuseChromaRenumbered(fused, chroma_chunks, k, upto) ==
    IF upto = 0 THEN fused
    ELSE FuseOne(FuseChromaRenumbered(fused, chroma_chunks, k, upto - 1),
                 chroma_chunks[upto], ChromaPayload(chroma_chunks[upto]), k,
                 Cardinality({i \in 1..upto - 1 : HasChunkId(chroma_chunks[i])}))

RECURSIVE FuseChroma(_, _, _, _)
FuseChroma(fused, chroma_chunks, k, upto) ==
    IF upto = 0 THEN fused
    ELSE FuseOne(FuseChroma(fused, chroma_chunks, k, upto - 1),
                 chroma_chunks[upto], ChromaPayload(chroma_chunks[upto]), k, upto - 1)

\* Mutant: rrf_scores and chunk_store kept between calls instead of being
\* new dicts of each call; a call starts from what a finished call left.
RRFScoresKept(bm25_chunks, chroma_chunks, k) ==
    LET finished == {d \in Callers : requests[d].pc = "returned" /\ requests[d].mode = "none"}
        left == IF finished = {} THEN <<>>
                ELSE LET d == CHOOSE d \in finished : TRUE
                     IN  FuseChroma(FuseBM25(<<>>, requests[d].bm25_chunks, k,
                                             Len(requests[d].bm25_chunks)),
                                    requests[d].chroma_chunks, k,
                                    Len(requests[d].chroma_chunks))
    IN  FuseChroma(FuseBM25(left, bm25_chunks, k, Len(bm25_chunks)),
                   chroma_chunks, k, Len(chroma_chunks))

\* rrf_scores / chunk_store after both loops: BM25 first, then Chroma.
RRFScores(bm25_chunks, chroma_chunks, k) ==
    FuseChroma(FuseBM25(<<>>, bm25_chunks, k, Len(bm25_chunks)),
               chroma_chunks, k, Len(chroma_chunks))

\* Mutant: an ascending sort turned round, which also turns the ties round.
SortedChunkIdsTiesReversed(fused) ==
    LET keyed == [i \in 1..Len(fused) |->
                     [item |-> fused[Len(fused) + 1 - i],
                      key |-> fused[Len(fused) + 1 - i].score]]
        order == SortedDesc(keyed)
    IN  [j \in 1..Len(order) |-> order[j].item]

\* sorted(rrf_scores.keys(), key=lambda x: rrf_scores[x], reverse=True)
SortedChunkIds(fused) ==
    LET keyed == [i \in 1..Len(fused) |-> [item |-> fused[i], key |-> fused[i].score]]
        order == SortedDesc(keyed)
    IN  [j \in 1..Len(order) |-> order[j].item]

\* Mutant: the similarity the stored chunk carries (its BM25 score or its
\* cosine similarity) returned in place of the fused score.
FinalResultsPayloadSimilarity(sorted_entries, n_results) ==
    LET top == Take(sorted_entries, n_results)
    IN  [j \in 1..Len(top) |->
            [text       |-> top[j].chunk.text,
             similarity |-> top[j].chunk.similarity,
             source     |-> top[j].chunk.meeting_title]]

\* The formatting loop over sorted_chunk_ids[:n_results].
FinalResults(sorted_entries, n_results) ==
    LET top == Take(sorted_entries, n_results)
    IN  [j \in 1..Len(top) |->
            [text       |-> top[j].chunk.text,
             similarity |-> top[j].score,
             source     |-> top[j].chunk.meeting_title]]

\* Lines 56-93 on the two lists the searches returned: the locals, and what
\* is returned (final_results).
Fusion(query, n_results, k, bm25_chunks, chroma_chunks) ==
    LET fused            == RRFScores(bm25_chunks, chroma_chunks, k)
        sorted_chunk_ids == SortedChunkIds(fused)
    IN  [query            |-> query,
         n_results        |-> n_results,
         k                |-> k,
         bm25_chunks      |-> bm25_chunks,
         chroma_chunks    |-> chroma_chunks,
         rrf_scores       |-> fused,
         sorted_chunk_ids |-> [j \in 1..Len(sorted_chunk_ids) |->
                                  sorted_chunk_ids[j].chunk_id],
         final_results    |-> FinalResults(sorted_chunk_ids, n_results)]

\* The whole call: both searches with candidate_count, then the fusion.
RetrieveDocuments(query, n_results, k) ==
    LET candidate_count == n_results * CandidateFactor
    IN  Fusion(query, n_results, k, BM25Search(query, candidate_count),
               ChromaSearch(candidate_count))

\* The BM25 loop stores a chunk, and sets chunk['similarity'] on it, when its
\* id is not in chunk_store yet: at the first place the list holds the id.
FirstStored(bm25_chunks, j) ==
    /\ HasChunkId(bm25_chunks[j])
    /\ \A i \in 1..j - 1 : ChunkId(bm25_chunks[i]) # ChunkId(bm25_chunks[j])

\* self.bm25_retriever.chunk_corpus after the BM25 loop of retrieve_documents
\* has set chunk['similarity'] = chunk['score'] on the chunks it stores.
CorpusAfterFusion(corpus, bm25_chunks, objects) ==
    WriteAll(corpus,
             [j \in 1..Len(bm25_chunks) |->
                 IF FirstStored(bm25_chunks, j) THEN objects[j] ELSE 0],
             "similarity",
             [j \in 1..Len(bm25_chunks) |-> bm25_chunks[j].score],
             Len(bm25_chunks))

\* if not self.chroma_searcher or not self.bm25_retriever
Initialized == retriever.chroma_searcher /\ retriever.bm25_retriever

\* ... return []: the call that finds a retriever missing.
NotInitialized(query, n_results, k) ==
    [query |-> query, n_results |-> n_results, k |-> k,
     bm25_chunks |-> <<>>, chroma_chunks |-> <<>>, rrf_scores |-> <<>>,
     sorted_chunk_ids |-> <<>>, final_results |-> <<>>]

(***************************************************************************)
(* POST /api/search  (src/backend_server.py)                               *)
(***************************************************************************)
\* n_results = request.n_results or 5: 0 (and None) become 5.
EffectiveN(n_results) == IF n_results = 0 THEN DefaultNResults ELSE n_results

\* n_results=min(20, n_results * 4) handed to chroma_collection.query
ChunkQuerySize(n_results) == Min(ChunkQueryCap, n_results * ChunkQueryFactor)

\* similarity = 1 - (distance / 2)
HandlerSimilarity(distance) == SimOne - distance

\* Mutant: only a missing key skipped (if agenda_id is None: continue).
NoAgendaIdNoneOnly(agenda_id) == agenda_id = Absent

\* if not agenda_id: continue   (None and "" are both falsy)
NoAgendaId(agenda_id) == agenda_id = Absent \/ agenda_id = ""

\* Mutant: the similarities of a group added up.
KeepBestSum(current, similarity) == current + similarity

\* max(agenda_scores[agenda_id], similarity)
KeepBest(current, similarity) == Max(current, similarity)

\* One turn of the grouping loop.  agenda_scores is a dict: a sequence of
\* [agenda_id, similarity] in the order the keys were inserted.
GroupOne(agenda_scores, hit) ==
    LET similarity == HandlerSimilarity(hit.distance)
        agenda_id  == hit.agenda_id
        at == {i \in 1..Len(agenda_scores) : agenda_scores[i].agenda_id = agenda_id}
    IN  IF NoAgendaId(agenda_id) THEN agenda_scores
        ELSE IF at = {}
        THEN Append(agenda_scores, [agenda_id |-> agenda_id, similarity |-> similarity])
        ELSE [i \in 1..Len(agenda_scores) |->
                IF i \in at
                THEN [agenda_scores[i] EXCEPT
                         !.similarity = KeepBest(@, similarity)]
                ELSE agenda_scores[i]]

RECURSIVE AgendaScores(_, _)
AgendaScores(chunk_results, upto) ==
    IF upto = 0 THEN <<>>
    ELSE GroupOne(AgendaScores(chunk_results, upto - 1), chunk_results[upto])

\* Mutant: the sorted list not cut to n_results.
SortedAgendasUncut(agenda_scores, n_results) ==
    LET keyed == [i \in 1..Len(agenda_scores) |->
                     [item |-> agenda_scores[i], key |-> agenda_scores[i].similarity]]
        order == SortedDesc(keyed)
    IN  [j \in 1..Len(order) |-> order[j].item]

\* Mutant: reverse=True left out, the lowest similarity first.
SortedAgendasAscending(agenda_scores, n_results) ==
    LET keyed == [i \in 1..Len(agenda_scores) |->
                     [item |-> agenda_scores[i], key |-> 0 - agenda_scores[i].similarity]]
        order == SortedDesc(keyed)
    IN  Take([j \in 1..Len(order) |-> order[j].item], n_results)

\* sorted(agenda_scores.items(), key=lambda x: x[1], reverse=True)[:n_results]
SortedAgendas(agenda_scores, n_results) ==
    LET keyed == [i \in 1..Len(agenda_scores) |->
                     [item |-> agenda_scores[i], key |-> agenda_scores[i].similarity]]
        order == SortedDesc(keyed)
    IN  Take([j \in 1..Len(order) |-> order[j].item], n_results)

\* round(similarity, 4): to the nearest multiple of RoundStep, a half to even.
Round4(similarity) ==
    LET q == similarity \div RoundStep
        r == similarity % RoundStep
    IN  IF 2 * r < RoundStep THEN q * RoundStep
        ELSE IF 2 * r > RoundStep THEN (q + 1) * RoundStep
        ELSE IF q % 2 = 0 THEN q * RoundStep ELSE (q + 1) * RoundStep

\* cursor.fetchone() for WHERE agenda_id = ?: a row, or None.
HasRow(agenda_id) == agenda_id \in agendas_table

\* Mutant: the loop left at the first agenda without a row (break).
FormattedResultsUntilMiss(sorted_agendas) ==
    LET misses == {i \in 1..Len(sorted_agendas) : ~HasRow(sorted_agendas[i].agenda_id)}
        found  == SelectSeq([i \in 1..Len(sorted_agendas) |-> i],
                            LAMBDA i : \A m \in misses : i < m)
    IN  [j \in 1..Len(found) |->
            [agenda_id  |-> sorted_agendas[found[j]].agenda_id,
             similarity |-> Round4(sorted_agendas[found[j]].similarity)]]

\* The lookup loop: an agenda without a row is skipped (if not row: continue).
FormattedResults(sorted_agendas) ==
    LET found == SelectSeq(sorted_agendas, LAMBDA a : HasRow(a.agenda_id))
    IN  [j \in 1..Len(found) |->
            [agenda_id  |-> found[j].agenda_id,
             similarity |-> Round4(found[j].similarity)]]

\* The whole handler: its locals and its response.  An exception anywhere in
\* the try block becomes HTTP 500.
SearchHandler(request_n) ==
    LET n_results == EffectiveN(request_n)
    IN  IF QueryRaises(ChunkQuerySize(n_results))
        THEN [request_n |-> request_n, status |-> 500, chunk_results |-> <<>>,
              similarities |-> <<>>,
              agenda_scores |-> <<>>, sorted_agendas |-> <<>>, results |-> <<>>]
        ELSE LET chunk_results  == CollectionQuery(ChunkQuerySize(n_results))
                 agenda_scores  == AgendaScores(chunk_results, Len(chunk_results))
                 sorted_agendas == SortedAgendas(agenda_scores, n_results)
             IN  [request_n      |-> request_n,
                  status         |-> 200,
                  chunk_results  |-> chunk_results,
                  similarities   |-> [i \in 1..Len(chunk_results) |->
                                         HandlerSimilarity(chunk_results[i].distance)],
                  agenda_scores  |-> agenda_scores,
                  sorted_agendas |-> sorted_agendas,
                  results        |-> FormattedResults(sorted_agendas)]

(***************************************************************************)
(* build_bm25_index  (src/database/build_bm25_index.py)                    *)
(***************************************************************************)
FileNames == <<"a.json", "b.json">>
\* A source file: missing, not parseable as JSON, or a meeting record.
NoFile == [kind |-> "missing"]
Malformed == [kind |-> "malformed"]
\* A pickle file that was not written.
NoPickle == [written |-> FALSE]
Pickle(data) == [written |-> TRUE, data |-> data]

\* Mutant: a chunk also needs an agenda to be indexed.
IndexesChunkWithAgendaOnly(chunk_data, meeting_title) ==
    /\ chunk_data.text # Absent /\ meeting_title # Absent /\ meeting_title # ""
    /\ chunk_data.agenda # Absent

\* A chunk of data.get('chunks', []) is kept only
\* if 'text' in chunk_data and meeting_title
IndexesChunk(chunk_data, meeting_title) ==
    chunk_data.text # Absent /\ meeting_title # Absent /\ meeting_title # ""

\* The chunks one file adds to chunk_corpus.  json.load raising on a
\* malformed file is caught by the per-file except: the file adds nothing.
FileChunks(file_name, data) ==
    IF data = Malformed THEN <<>>
    ELSE LET meeting_title == data.title
             kept == SelectSeq([idx \in 1..Len(data.chunks) |-> idx],
                               LAMBDA idx : IndexesChunk(data.chunks[idx], meeting_title))
         IN  [j \in 1..Len(kept) |->
                [text          |-> data.chunks[kept[j]].text,
                 meeting_title |-> meeting_title,
                 chunk_index   |-> kept[j] - 1,
                 doc_path      |-> file_name]]

\* glob.glob(...): the files that exist, here in name order.
FilePaths == SelectSeq([i \in 1..Len(FileNames) |-> i],
                       LAMBDA i : source_files[i] # NoFile)

RECURSIVE LoadChunks(_)
LoadChunks(file_paths) ==
    IF file_paths = <<>> THEN <<>>
    ELSE FileChunks(FileNames[file_paths[1]], source_files[file_paths[1]])
            \o LoadChunks(Tail(file_paths))

\* [[token.form for token in kiwi.tokenize(chunk['text'])] for chunk in chunk_corpus]
TokenizedCorpus(corpus) == [i \in 1..Len(corpus) |-> Tokenize(corpus[i].text)]

\* BM25Okapi(tokenized_corpus): corpus size and per document term frequencies.
BM25Okapi(tokenized_corpus) ==
    [corpus_size |-> Len(tokenized_corpus),
     doc_freqs   |-> [i \in 1..Len(tokenized_corpus) |->
                        [t \in Range(tokenized_corpus[i]) |->
                            Cardinality({j \in 1..Len(tokenized_corpus[i]) :
                                            tokenized_corpus[i][j] = t})]]]

\* Steps 2-4: load, tokenize, build; or one of the two early returns.
BuildLoad ==
    /\ build_pc = "start"
    /\ LET corpus == LoadChunks(FilePaths)
       IN  IF FilePaths = <<>> \/ corpus = <<>>
           THEN /\ build_pc' = "returned"
                /\ build_mem' = [chunk_corpus |-> corpus, bm25 |-> BM25Okapi(<<>>)]
           ELSE /\ build_pc' = "built"
                /\ build_mem' = [chunk_corpus |-> corpus,
                                 bm25 |-> BM25Okapi(TokenizedCorpus(corpus))]
    /\ UNCHANGED <<chunk_corpus, bm25, chroma_collection, agendas_table, bm25_call,
                   retrieve_call, search_call, source_files, index_dir,
                   searcher_call, chroma_status, retriever, requests, loader, offline>>

\* with open(bm25_index_path, 'wb') as f: pickle.dump(bm25, f)
BuildDumpIndex ==
    /\ build_pc = "built"
    /\ build_pc' = "index_written"
    /\ index_dir' = [index_dir EXCEPT !.bm25_index = Pickle(build_mem.bm25)]
    /\ UNCHANGED <<chunk_corpus, bm25, chroma_collection, agendas_table, bm25_call,
                   retrieve_call, search_call, source_files, build_mem,
                   searcher_call, chroma_status, retriever, requests, loader, offline>>

\* with open(chunk_corpus_path, 'wb') as f: pickle.dump(chunk_corpus, f)
BuildDumpCorpus ==
    /\ build_pc = "index_written"
    /\ build_pc' = "done"
    /\ index_dir' = [index_dir EXCEPT !.bm25_chunk_corpus = Pickle(build_mem.chunk_corpus)]
    /\ UNCHANGED <<chunk_corpus, bm25, chroma_collection, agendas_table, bm25_call,
                   retrieve_call, search_call, source_files, build_mem,
                   searcher_call, chroma_status, retriever, requests, loader, offline>>

(***************************************************************************)
(* BM25Retriever.__init__ reading the two files build_bm25_index writes.   *)
(***************************************************************************)
\* with open(bm25_index_path, 'rb') as f: self.bm25 = pickle.load(f)
\* A missing file raises FileNotFoundError, which __init__ re-raises.
LoadIndex ==
    /\ loader.pc = "start"
    /\ loader' = IF index_dir.bm25_index = NoPickle
                 THEN [pc |-> "failed"]
                 ELSE [pc |-> "index_loaded", bm25 |-> index_dir.bm25_index.data]
    /\ UNCHANGED <<chunk_corpus, bm25, chroma_collection, agendas_table,
                   chroma_status, retriever, requests, lastCalls,
                   source_files, build_pc, build_mem, index_dir, offline>>

\* with open(chunk_corpus_path, 'rb') as f: self.chunk_corpus = pickle.load(f)
LoadCorpus ==
    /\ loader.pc = "index_loaded"
    /\ loader' = IF index_dir.bm25_chunk_corpus = NoPickle
                 THEN [pc |-> "failed"]
                 ELSE [pc |-> "loaded", bm25 |-> loader.bm25,
                       chunk_corpus |-> index_dir.bm25_chunk_corpus.data]
    /\ UNCHANGED <<chunk_corpus, bm25, chroma_collection, agendas_table,
                   chroma_status, retriever, requests, lastCalls,
                   source_files, build_pc, build_mem, index_dir, offline>>

\* Another BM25Retriever() is constructed.
LoadAgain ==
    /\ loader.pc \in {"failed", "loaded"}
    /\ loader' = NoLoad
    /\ UNCHANGED <<chunk_corpus, bm25, chroma_collection, agendas_table,
                   chroma_status, retriever, requests, lastCalls,
                   source_files, build_pc, build_mem, index_dir, offline>>

(***************************************************************************)
(* The serving operations as actions.                                      *)
(***************************************************************************)
\* BM25Retriever.search(query, n_results)
Search(query, n_results) ==
    /\ bm25_call' = BM25SearchCall(query, n_results)
    /\ UNCHANGED <<chunk_corpus, bm25, chroma_collection, agendas_table,
                   retrieve_call, search_call, source_files, build_pc, build_mem,
                   index_dir,
                   searcher_call, chroma_status, retriever, requests, loader, offline>>

\* Retriever.retrieve_documents(query, n_results) with the default k, as one
\* step; what it writes to dicts is the subject of the stepwise calls below.
Retrieve(query, n_results) ==
    /\ retrieve_call' = IF Initialized
                        THEN RetrieveDocuments(query, n_results, DefaultK)
                        ELSE NotInitialized(query, n_results, DefaultK)
    /\ UNCHANGED <<chunk_corpus, bm25, chroma_collection, agendas_table,
                   bm25_call, search_call, source_files, build_pc, build_mem,
                   index_dir,
                   searcher_call, chroma_status, retriever, requests, loader, offline>>

\* POST /api/search with request.n_results = n
ApiSearch(n) ==
    /\ search_call' = SearchHandler(n)
    /\ UNCHANGED <<chunk_corpus, bm25, chroma_collection, agendas_table,
                   bm25_call, retrieve_call, source_files, build_pc, build_mem,
                   index_dir,
                   searcher_call, chroma_status, retriever, requests, loader, offline>>

\* MeetingSearcher.search(query, n_results=n)
SearcherSearch(n) ==
    /\ searcher_call' = SearcherSearchCall(n)
    /\ UNCHANGED <<chunk_corpus, bm25, chroma_collection, agendas_table,
                   bm25_call, retrieve_call, search_call, source_files, build_pc,
                   build_mem, index_dir, chroma_status, retriever, requests, loader, offline>>

\* Lines 56-93 of one retrieve_documents call, on lists its two searches
\* may have returned: up to max_len chunks of each searcher's kind.
Fuse(BM25Chunks, ChromaChunks, max_len) ==
    /\ retrieve_call = NoCall
    /\ \E bm25_chunks \in SeqsUpTo(BM25Chunks, max_len),
          chroma_chunks \in SeqsUpTo(ChromaChunks, max_len),
          n_results \in 1..MaxN :
          retrieve_call' = Fusion("seoul", n_results, DefaultK, bm25_chunks,
                                  chroma_chunks)
    /\ UNCHANGED <<chunk_corpus, bm25, chroma_collection, agendas_table,
                   bm25_call, search_call, source_files, build_pc, build_mem,
                   index_dir,
                   searcher_call, chroma_status, retriever, requests, loader, offline>>

(***************************************************************************)
(* Retriever, step by step: its construction, and retrieve_documents calls *)
(* of several callers, each a sequence of steps that may interleave.       *)
(***************************************************************************)
\* open(bm25_index_path, 'rb') and open(chunk_corpus_path, 'rb') both succeed.
IndexFilesPresent ==
    index_dir.bm25_index # NoPickle /\ index_dir.bm25_chunk_corpus # NoPickle

\* Retriever.__init__: MeetingSearcher() and then BM25Retriever(); any
\* exception of either leaves both attributes None.  failed keeps which of
\* the two could not be loaded.
Construct ==
    /\ retriever.pc = "new"
    /\ LET vector_ok  == chroma_status # "down"
           lexical_ok == IndexFilesPresent
       IN  retriever' =
             [pc              |-> "ready",
              chroma_searcher |-> vector_ok /\ lexical_ok,
              bm25_retriever  |-> vector_ok /\ lexical_ok,
              failed          |-> IF vector_ok /\ lexical_ok THEN "none"
                                  ELSE IF vector_ok THEN "bm25"
                                  ELSE IF lexical_ok THEN "chroma"
                                  ELSE "both"]
    /\ UNCHANGED <<chunk_corpus, bm25, chroma_collection, agendas_table,
                   chroma_status, requests, lastCalls, buildVars, offline>>

InProgress(c) == requests[c].pc \in {"bm25", "chroma", "fuse"}

\* The process is started again: a new Retriever is to be constructed.
Restart ==
    /\ retriever.pc = "ready"
    /\ \A c \in Callers : ~InProgress(c)
    /\ retriever' = [pc |-> "new", chroma_searcher |-> FALSE,
                     bm25_retriever |-> FALSE, failed |-> "none"]
    /\ UNCHANGED <<chunk_corpus, bm25, chroma_collection, agendas_table,
                   chroma_status, requests, lastCalls, buildVars, offline>>

\* The vector collaborator becomes reachable, unreachable or unresponsive.
ChromaChanges(status) ==
    /\ status # chroma_status
    /\ chroma_status' = status
    /\ UNCHANGED <<chunk_corpus, bm25, chroma_collection, agendas_table,
                   retriever, requests, lastCalls, buildVars, offline>>

\* retrieve_documents(query, n_results) is called: lines 42-49.  mode keeps
\* what the Retriever had failed to load, vector the collaborator's state
\* when the call looked at it.
Call(c, query, n_results) ==
    /\ retriever.pc = "ready"
    /\ ~InProgress(c)
    /\ requests' = [requests EXCEPT ![c] =
          IF ~Initialized
          THEN [pc |-> "returned", query |-> query, n_results |-> n_results,
                mode |-> retriever.failed, vector |-> chroma_status,
                bm25_chunks |-> <<>>, chroma_chunks |-> <<>>, value |-> <<>>]
          ELSE [pc |-> "bm25", query |-> query, n_results |-> n_results,
                mode |-> retriever.failed]]
    /\ UNCHANGED <<chunk_corpus, bm25, chroma_collection, agendas_table,
                   chroma_status, retriever, lastCalls, buildVars, offline>>

\* bm25_chunks = self.bm25_retriever.search(query, n_results=candidate_count)
StepBM25(c) ==
    /\ requests[c].pc = "bm25"
    /\ LET r       == requests[c]
           count   == r.n_results * CandidateFactor
           results == BM25Search(r.query, count)
           objects == ResultObjects(r.query, count)
       IN  /\ requests' = [requests EXCEPT ![c] =
                 [pc |-> "chroma", bm25_chunks |-> results,
                  bm25_objects |-> objects] @@ r]
           /\ chunk_corpus' = CorpusAfterSearch(chunk_corpus, objects, results)
    /\ UNCHANGED <<bm25, chroma_collection, agendas_table, chroma_status,
                   retriever, lastCalls, buildVars, offline>>

\* chroma_search_results = self.chroma_searcher.search(query, ...): it
\* returns, or it raises and the exception leaves retrieve_documents, or it
\* does not come back.
StepChroma(c) ==
    /\ requests[c].pc = "chroma"
    /\ chroma_status # "hung"
    /\ LET r == requests[c]
       IN  requests' = [requests EXCEPT ![c] =
             IF chroma_status = "down"
             THEN [pc |-> "raised", vector |-> "down"] @@ r
             ELSE [pc |-> "fuse", vector |-> "up",
                   chroma_chunks |-> ChromaSearch(r.n_results * CandidateFactor)]
                  @@ r]
    /\ UNCHANGED <<chunk_corpus, bm25, chroma_collection, agendas_table,
                   chroma_status, retriever, lastCalls, buildVars, offline>>

\* Mutant: the fusion run as soon as the BM25 list is there, on an empty
\* vector list, while the vector search is still to be made.
StepFuseEarly(c) ==
    /\ requests[c].pc = "chroma"
    /\ LET r     == requests[c]
           fused == RRFScores(r.bm25_chunks, <<>>, DefaultK)
       IN  requests' = [requests EXCEPT ![c] =
              [pc |-> "returned",
               value |-> FinalResults(SortedChunkIds(fused), r.n_results)] @@ r]
    /\ UNCHANGED <<chunk_corpus, bm25, chroma_collection, agendas_table,
                   chroma_status, retriever, lastCalls, buildVars, offline>>

\* Lines 56-93: both loops, the sort and the formatting; the BM25 loop sets
\* chunk['similarity'] on the chunks it stores.
StepFuse(c) ==
    /\ requests[c].pc = "fuse"
    /\ LET r     == requests[c]
           fused == RRFScores(r.bm25_chunks, r.chroma_chunks, DefaultK)
       IN  /\ requests' = [requests EXCEPT ![c] =
                 [pc |-> "returned",
                  value |-> FinalResults(SortedChunkIds(fused), r.n_results)] @@ r]
           /\ chunk_corpus' =
                 CorpusAfterFusion(chunk_corpus, r.bm25_chunks, r.bm25_objects)
    /\ UNCHANGED <<bm25, chroma_collection, agendas_table, chroma_status,
                   retriever, lastCalls, buildVars, offline>>

(***************************************************************************)
(* process_all_txt_files_async                                             *)
(* (src/data_processing/process_all_txt_to_json_async_gemini.py)           *)
(***************************************************************************)
\* Mutant: process_single_file awaited without the semaphore.
EnterUnlimited(t) ==
    /\ batch.tasks[t] = "waiting"
    /\ batch' = [batch EXCEPT !.tasks[t] = "processing"]
    /\ UNCHANGED <<chunk_corpus, bm25, chroma_collection, agendas_table,
                   chroma_status, retriever, requests, lastCalls, buildVars,
                   handler, connections, agenda_build, hybrid>>

\* A task of gather() passes `async with semaphore` when the semaphore's
\* value is positive, and is then inside process_single_file.
Enter(t) ==
    /\ batch.tasks[t] = "waiting"
    /\ batch.semaphore > 0
    /\ batch' = [batch EXCEPT !.semaphore = @ - 1, !.tasks[t] = "processing"]
    /\ UNCHANGED <<chunk_corpus, bm25, chroma_collection, agendas_table,
                   chroma_status, retriever, requests, lastCalls, buildVars,
                   handler, connections, agenda_build, hybrid>>

\* process_single_file returns (True, msg) or (False, msg), an exception of
\* the conversion included, and the `async with` block releases.
Leave(t, success) ==
    /\ batch.tasks[t] = "processing"
    /\ batch' = [batch EXCEPT !.semaphore = @ + 1,
                              !.tasks[t] = IF success THEN "succeeded" ELSE "failed"]
    /\ UNCHANGED <<chunk_corpus, bm25, chroma_collection, agendas_table,
                   chroma_status, retriever, requests, lastCalls, buildVars,
                   handler, connections, agenda_build, hybrid>>

(***************************************************************************)
(* The SQLite connections of POST /api/search and GET /api/agenda/{id}      *)
(* (src/backend_server.py)                                                 *)
(***************************************************************************)
\* conn = sqlite3.connect(SQLITE_DB_PATH) of either handler.  conn is the
\* place of the new connection in connections, executes the SELECTs the
\* handler has ahead of it: one per sorted agenda in search, two in
\* get_agenda_detail.
Connect(endpoint, selects) ==
    /\ handler.pc \in {"idle", "done"}
    /\ Len(connections) < MaxConnections
    /\ connections' = Append(connections, "open")
    /\ handler' = [pc |-> "connected", endpoint |-> endpoint,
                   conn |-> Len(connections) + 1, executes |-> selects]
    /\ UNCHANGED <<chunk_corpus, bm25, chroma_collection, agendas_table,
                   chroma_status, retriever, requests, lastCalls, buildVars, batch,
                   agenda_build, hybrid>>

\* cursor.execute(...) and what follows it up to the next execute.  The
\* statement may raise (no such table, database locked); the handler's
\* `except Exception` answers 500.  In get_agenda_detail the first SELECT
\* may find no row: conn.close() and 404.
Execute(raises, found) ==
    /\ handler.pc = "connected"
    /\ handler.executes > 0
    /\ IF raises
       THEN /\ handler' = [handler EXCEPT !.pc = "done", !.executes = 0] @@ [status |-> 500]
            /\ UNCHANGED connections
       ELSE IF handler.endpoint = "detail" /\ handler.executes = 2 /\ ~found
       THEN /\ handler' = [handler EXCEPT !.pc = "done", !.executes = 0] @@ [status |-> 404]
            /\ connections' = [connections EXCEPT ![handler.conn] = "closed"]
       ELSE /\ handler' = [handler EXCEPT !.executes = @ - 1]
            /\ UNCHANGED connections
    /\ UNCHANGED <<chunk_corpus, bm25, chroma_collection, agendas_table,
                   chroma_status, retriever, requests, lastCalls, buildVars, batch,
                   agenda_build, hybrid>>

\* conn.close() after the last SELECT, and the response.
Close ==
    /\ handler.pc = "connected"
    /\ handler.executes = 0
    /\ connections' = [connections EXCEPT ![handler.conn] = "closed"]
    /\ handler' = [handler EXCEPT !.pc = "done"] @@ [status |-> 200]
    /\ UNCHANGED <<chunk_corpus, bm25, chroma_collection, agendas_table,
                   chroma_status, retriever, requests, lastCalls, buildVars, batch,
                   agenda_build, hybrid>>

(***************************************************************************)
(* The two agenda builders: insert_agendas_to_db                           *)
(* (src/create_agenda_database.py) and insert_agendas_to_chromadb          *)
(* (src/insert_agendas_to_chromadb.py), each with its own                  *)
(* group_chunks_by_agenda.                                                 *)
(***************************************************************************)
\* The group of the chunks that have no agenda, and the speaker of a chunk
\* that has none: the defaults of chunk.get(...).
OtherRemarks == "other remarks"
NoSpeaker == "no speaker"

\* f"{agenda_index:03d}": the decimal digits, filled with zeros to three.
Pad3(agenda_index) ==
    <<(agenda_index \div 100) % 10, (agenda_index \div 10) % 10, agenda_index % 10>>

\* Mutant: a chunk with no agenda left out of every group.
RECURSIVE GroupChunksSkippingNoAgenda(_, _)
GroupChunksSkippingNoAgenda(chunks, upto) ==
    IF upto = 0 THEN <<>>
    ELSE LET groups  == GroupChunksSkippingNoAgenda(chunks, upto - 1)
             chunk   == chunks[upto]
             agenda  == IF chunk.agenda \in {Absent, ""} THEN OtherRemarks
                        ELSE chunk.agenda
             speaker == IF chunk.speaker = Absent THEN NoSpeaker ELSE chunk.speaker
             known   == \E g \in 1..Len(groups) : groups[g].agenda = agenda
             with    == IF known THEN groups
                        ELSE Append(groups, [agenda |-> agenda, texts |-> <<>>,
                                             speakers |-> <<>>, chunk_indices |-> <<>>])
         IN  IF chunk.agenda \in {Absent, ""} THEN groups ELSE
             [g \in 1..Len(with) |->
                IF with[g].agenda = agenda
                THEN [with[g] EXCEPT !.texts = Append(@, chunk.text),
                                      !.speakers = Append(@, speaker),
                                      !.chunk_indices = Append(@, upto - 1)]
                ELSE with[g]]

\* group_chunks_by_agenda of create_agenda_database.py: agenda_groups after
\* the first upto chunks, a dict in insertion order.  idx counts from 0.
RECURSIVE GroupChunksByAgenda(_, _)
GroupChunksByAgenda(chunks, upto) ==
    IF upto = 0 THEN <<>>
    ELSE LET groups  == GroupChunksByAgenda(chunks, upto - 1)
             chunk   == chunks[upto]
             agenda  == IF chunk.agenda \in {Absent, ""} THEN OtherRemarks
                        ELSE chunk.agenda
             speaker == IF chunk.speaker = Absent THEN NoSpeaker ELSE chunk.speaker
             known   == \E g \in 1..Len(groups) : groups[g].agenda = agenda
             with    == IF known THEN groups
                        ELSE Append(groups, [agenda |-> agenda, texts |-> <<>>,
                                             speakers |-> <<>>, chunk_indices |-> <<>>])
         IN  [g \in 1..Len(with) |->
                IF with[g].agenda = agenda
                THEN [with[g] EXCEPT !.texts = Append(@, chunk.text),
                                      !.speakers = Append(@, speaker),
                                      !.chunk_indices = Append(@, upto - 1)]
                ELSE with[g]]

\* group_chunks_by_agenda of insert_agendas_to_chromadb.py.
RECURSIVE GroupChunksByAgendaChroma(_, _)
GroupChunksByAgendaChroma(chunks, upto) ==
    IF upto = 0 THEN <<>>
    ELSE LET groups  == GroupChunksByAgendaChroma(chunks, upto - 1)
             chunk   == chunks[upto]
             agenda  == IF chunk.agenda \in {Absent, ""} THEN OtherRemarks
                        ELSE chunk.agenda
             speaker == IF chunk.speaker = Absent THEN NoSpeaker ELSE chunk.speaker
             known   == \E g \in 1..Len(groups) : groups[g].agenda = agenda
             with    == IF known THEN groups
                        ELSE Append(groups, [agenda |-> agenda, texts |-> <<>>,
                                             speakers |-> <<>>, chunk_indices |-> <<>>])
         IN  [g \in 1..Len(with) |->
                IF with[g].agenda = agenda
                THEN [with[g] EXCEPT !.texts = Append(@, chunk.text),
                                      !.speakers = Append(@, speaker),
                                      !.chunk_indices = Append(@, upto - 1)]
                ELSE with[g]]

\* chunk['text'] raises KeyError for a chunk without 'text'.
GroupingRaises(chunks) == \E i \in 1..Len(chunks) : chunks[i].text = Absent

\* agenda_id = f"{meeting_id}_agenda_{agenda_index:03d}" of the SQLite builder.
AgendaId(meeting_id, agenda_index) == <<meeting_id, "_agenda_", Pad3(agenda_index)>>

\* Mutant: the vector builder counting its agendas from 1.
DocIdFromOne(meeting_id, agenda_index) ==
    <<meeting_id, "_agenda_", Pad3(agenda_index + 1)>>

\* The same f-string of the vector builder, for metadata and doc_id.
DocId(meeting_id, agenda_index) == <<meeting_id, "_agenda_", Pad3(agenda_index)>>

\* insert_agendas_to_db on the one file: the rows of the agendas table.
InsertAgendasToDb ==
    /\ agenda_build.pc = "loaded"
    /\ agenda_build.db.outcome = "none"
    /\ LET groups == GroupChunksByAgenda(agenda_build.chunks, Len(agenda_build.chunks))
       IN  agenda_build' = [agenda_build EXCEPT !.db =
             IF GroupingRaises(agenda_build.chunks)
             THEN [outcome |-> "raised", groups |-> <<>>, rows |-> <<>>]
             ELSE [outcome |-> "returned", groups |-> groups,
                   rows |-> [g \in 1..Len(groups) |->
                      [agenda_id    |-> AgendaId(agenda_build.meeting_id, g - 1),
                       agenda_title |-> groups[g].agenda,
                       chunk_count  |-> Len(groups[g].texts),
                       chunk_ids    |-> groups[g].chunk_indices]]]]
    /\ UNCHANGED <<chunk_corpus, bm25, chroma_collection, agendas_table,
                   chroma_status, retriever, requests, lastCalls, buildVars, batch,
                   handler, connections, hybrid>>

\* insert_agendas_to_chromadb on the one file: the documents it adds.
InsertAgendasToChromadb ==
    /\ agenda_build.pc = "loaded"
    /\ agenda_build.chroma.outcome = "none"
    /\ LET groups == GroupChunksByAgendaChroma(agenda_build.chunks,
                                               Len(agenda_build.chunks))
       IN  agenda_build' = [agenda_build EXCEPT !.chroma =
             IF GroupingRaises(agenda_build.chunks)
             THEN [outcome |-> "raised", groups |-> <<>>, rows |-> <<>>]
             ELSE [outcome |-> "returned", groups |-> groups,
                   rows |-> [g \in 1..Len(groups) |->
                      [id            |-> DocId(agenda_build.meeting_id, g - 1),
                       agenda_id     |-> DocId(agenda_build.meeting_id, g - 1),
                       agenda        |-> groups[g].agenda,
                       chunk_count   |-> Len(groups[g].texts),
                       chunk_indices |-> groups[g].chunk_indices]]]]
    /\ UNCHANGED <<chunk_corpus, bm25, chroma_collection, agendas_table,
                   chroma_status, retriever, requests, lastCalls, buildVars, batch,
                   handler, connections, hybrid>>

(***************************************************************************)
(* The hybrid parser  (src/data_processing/extract_metadata_hybrid.py).    *)
(* A text is the sequence of its lines: text.split('\n').                  *)
(***************************************************************************)
\* The line of 80 '=' that ends the header.
Separator == "================"

\* text.strip(), for lines that are empty or have no blanks at their ends:
\* the empty lines at both ends go; ''.split('\n') is [''].
Strip(lines) ==
    LET full == {i \in 1..Len(lines) : lines[i] # ""}
    IN  IF full = {} THEN <<"">>
        ELSE SubSeq(lines, CHOOSE i \in full : \A j \in full : i <= j,
                           CHOOSE i \in full : \A j \in full : j <= i)

\* The lines after the first line that holds the separator; all of them if
\* no line does (parse_with_pure_code, lines 531-540).
AfterSeparator(lines) ==
    LET at == {i \in 1..Len(lines) : lines[i] = Separator}
    IN  IF at = {} THEN lines
        ELSE SubSeq(lines, (CHOOSE i \in at : \A j \in at : i <= j) + 1, Len(lines))

\* Stage 1, extract_agenda_mapping: the lines of txt_content numbered from 1
\* for the LLM, whose answer names a range of these numbers.
ExtractAgendaMapping ==
    /\ hybrid.pc = "read"
    /\ \E line_start, line_end \in 1..Len(hybrid.txt_content) :
          /\ line_start <= line_end
          /\ hybrid' = [pc |-> "mapped", path |-> hybrid.path,
                        content |-> hybrid.content,
                        numbered_text |-> [i \in 1..Len(hybrid.txt_content) |->
                                              <<i, hybrid.txt_content[i]>>],
                        line_start |-> line_start, line_end |-> line_end]
    /\ UNCHANGED <<chunk_corpus, bm25, chroma_collection, agendas_table,
                   chroma_status, retriever, requests, lastCalls, buildVars, batch,
                   handler, connections, agenda_build>>

\* Stage 2, parse_with_pure_code on the content with its header:
\* section_lines = lines[line_start - 1:line_end] of the lines after the
\* separator.
ParseWithPureCode ==
    /\ hybrid.pc = "mapped"
    /\ LET lines == AfterSeparator(hybrid.content)
       IN  hybrid' = [hybrid EXCEPT !.pc = "parsed"] @@
              [section_lines |->
                  SubSeq(lines, hybrid.line_start, Min(hybrid.line_end, Len(lines)))]
    /\ UNCHANGED <<chunk_corpus, bm25, chroma_collection, agendas_table,
                   chroma_status, retriever, requests, lastCalls, buildVars, batch,
                   handler, connections, agenda_build>>

(***************************************************************************)
(* Initial states.                                                         *)
(***************************************************************************)
\* Two loaded corpora: three chunks of two meetings, and one in which two
\* source files carry the same meeting title.
CorpusChunk(text, title, idx, path) ==
    [text |-> text, meeting_title |-> title, chunk_index |-> idx, doc_path |-> path]

Corpora ==
    { <<CorpusChunk("b1", "m1", 0, "a.json"), CorpusChunk("b2", "m1", 1, "a.json"),
        CorpusChunk("b3", "m2", 0, "b.json")>>,
      <<CorpusChunk("b1", "m1", 0, "a.json"), CorpusChunk("b2", "m1", 1, "a.json"),
        CorpusChunk("b3", "m1", 0, "b.json")>> }

\* The stored chunks a vector query can return, with their metadata.
Hit(agenda_id, distance, title, idx) ==
    [agenda_id |-> agenda_id, distance |-> distance, meeting_title |-> title,
     chunk_index |-> idx, text |-> "v"]

\* Chroma returns the nearest first: distances never decrease along the list.
NearestFirst(hits) ==
    \A i \in 1..Len(hits) - 1 : hits[i].distance <= hits[i + 1].distance

NoServing ==
    /\ bm25_call = NoCall /\ retrieve_call = NoCall /\ search_call = NoCall
    /\ searcher_call = NoCall

\* No offline job is running and no handler has opened a connection.
NoOffline ==
    /\ batch = NoBatch /\ handler = [pc |-> "idle"] /\ connections = <<>>
    /\ agenda_build = [pc |-> "idle"] /\ hybrid = [pc |-> "idle"]

\* The collaborators up, the Retriever constructed, nothing in progress.
Ready ==
    /\ chroma_status = "up"
    /\ retriever = BothLoaded
    /\ requests = [c \in Callers |-> Idle]
    /\ loader = NoLoad /\ NoOffline

NoBuild ==
    /\ source_files = [i \in 1..Len(FileNames) |-> NoFile]
    /\ build_pc = "start"
    /\ build_mem = [chunk_corpus |-> <<>>, bm25 |-> BM25Okapi(<<>>)]
    /\ index_dir = [bm25_index |-> NoPickle, bm25_chunk_corpus |-> NoPickle]

InitIndex(Weights) ==
    /\ chunk_corpus \in Corpora
    /\ bm25 \in [1..Len(chunk_corpus) -> [Vocabulary -> Weights]]

\* --- BM25Retriever alone -------------------------------------------------
BM25Weights == {-1, 0, 1, 2}

InitBM25 ==
    /\ InitIndex(BM25Weights)
    /\ chroma_collection = <<>>
    /\ agendas_table = {}
    /\ NoServing /\ NoBuild /\ Ready

NextBM25 == \E query \in Queries, n_results \in -1..MaxN + 1 : Search(query, n_results)

SpecBM25 == InitBM25 /\ [][NextBM25]_vars

\* --- Retriever: BM25 and Chroma fused ------------------------------------
RetrieverWeights == {0, 1, 2}
RetrieverHits == { Hit("A", 20000, "m1", 0), Hit("A", 20000, "m1", 1),
                   Hit("A", 20000, "m2", 0), Hit("A", 20000, "m1", AbsentIndex) }
RetrieverQueries == {"", "seoul"}

InitRetriever ==
    /\ InitIndex(RetrieverWeights)
    /\ chroma_collection \in SeqsUpTo(RetrieverHits, MaxHits)
    /\ agendas_table = {}
    /\ NoServing /\ NoBuild /\ Ready

NextRetriever ==
    \E query \in RetrieverQueries, n_results \in 1..MaxN : Retrieve(query, n_results)

SpecRetriever == InitRetriever /\ [][NextRetriever]_vars

\* --- /api/search ----------------------------------------------------------
AgendaIds == {"A", "B", "C"}
Distances == {19998, 20000, 50000, 70000}
\* Stored chunks of each agenda at each distance, and two chunks whose
\* metadata has no agenda_id: one without the key, one with an empty value.
SearchHits == { Hit(a, d, "m1", 0) : a \in AgendaIds, d \in Distances }
                \cup { Hit(Absent, 50000, "m1", 0), Hit("", 50000, "m1", 0) }

\* Answers one chunk longer than the query for a single result fetches.
LongAnswers == [1..ChunkQueryFactor + 1 -> {Hit(a, 50000, "m1", 0) : a \in AgendaIds}]

InitSearch ==
    /\ chunk_corpus = <<>>
    /\ bm25 = <<>>
    /\ chroma_collection \in {h \in SeqsUpTo(SearchHits, MaxHits) : NearestFirst(h)}
                                \cup LongAnswers
    /\ agendas_table \in SUBSET AgendaIds
    /\ NoServing /\ NoBuild /\ Ready

NextSearch == \E n \in -1..MaxN + 1 : ApiSearch(n)

SpecSearch == InitSearch /\ [][NextSearch]_vars

\* --- both distance-to-similarity conversions, on any raw distance ----------
\* Raw distances at, inside and outside both ends of the cosine range [0, 2].
RawDistances == {-20000, -2, 50000, 100001, 120000}
SimilarityHits == { Hit(a, d, "m1", 0) : a \in {"A", "B"}, d \in RawDistances }

InitSimilarity ==
    /\ chunk_corpus = <<>>
    /\ bm25 = <<>>
    /\ chroma_collection \in {h \in SeqsUpTo(SimilarityHits, MaxHits) : NearestFirst(h)}
    /\ agendas_table = AgendaIds
    /\ NoServing /\ NoBuild /\ Ready

NextSimilarity ==
    \/ \E n \in 0..MaxN : ApiSearch(n)
    \/ \E n \in 0..MaxN : SearcherSearch(n)

SpecSimilarity == InitSimilarity /\ [][NextSimilarity]_vars

\* --- Retriever: construction, fallbacks, concurrent callers ----------------
\* The index files are missing, or hold the index the retriever loads.
ServingWeights == {0, 1}
ServingHits == { Hit("A", 20000, "m1", 0), Hit("A", 20000, "m2", 1) }

InitServing ==
    /\ \/ /\ InitIndex(ServingWeights)
          /\ chunk_corpus[3].meeting_title = "m2"
          /\ index_dir = [bm25_index |-> Pickle(bm25),
                          bm25_chunk_corpus |-> Pickle(chunk_corpus)]
       \/ /\ chunk_corpus = <<>>
          /\ bm25 = <<>>
          /\ index_dir = [bm25_index |-> NoPickle, bm25_chunk_corpus |-> NoPickle]
    /\ chroma_collection \in SeqsUpTo(ServingHits, Cardinality(ServingHits))
    /\ agendas_table = {}
    /\ NoServing
    /\ source_files = [i \in 1..Len(FileNames) |-> NoFile]
    /\ build_pc = "start"
    /\ build_mem = [chunk_corpus |-> <<>>, bm25 |-> BM25Okapi(<<>>)]
    /\ loader = NoLoad /\ NoOffline
    /\ chroma_status \in {"up", "down"}
    /\ retriever = [pc |-> "new", chroma_searcher |-> FALSE,
                    bm25_retriever |-> FALSE, failed |-> "none"]
    /\ requests = [c \in Callers |-> Idle]

NextServing ==
    \/ Construct
    \/ Restart
    \/ \E status \in {"up", "down", "hung"} : ChromaChanges(status)
    \/ \E c \in Callers, query \in RetrieverQueries, n_results \in 1..MaxN :
          Call(c, query, n_results)
    \/ \E c \in Callers : StepBM25(c)
    \/ \E c \in Callers : StepChroma(c)
    \/ \E c \in Callers : StepFuse(c)

SpecServing == InitServing /\ [][NextServing]_vars

\* --- one loaded Retriever whose running calls keep running -----------------
InitTimeout ==
    /\ chunk_corpus = <<CorpusChunk("b1", "m1", 0, "a.json"),
                        CorpusChunk("b2", "m1", 1, "a.json"),
                        CorpusChunk("b3", "m2", 0, "b.json")>>
    /\ bm25 \in [1..Len(chunk_corpus) -> [Vocabulary -> ServingWeights]]
    /\ index_dir = [bm25_index |-> Pickle(bm25),
                    bm25_chunk_corpus |-> Pickle(chunk_corpus)]
    /\ chroma_collection = <<Hit("A", 20000, "m2", 1)>>
    /\ agendas_table = {}
    /\ NoServing
    /\ source_files = [i \in 1..Len(FileNames) |-> NoFile]
    /\ build_pc = "start"
    /\ build_mem = [chunk_corpus |-> <<>>, bm25 |-> BM25Okapi(<<>>)]
    /\ loader = NoLoad /\ NoOffline
    /\ chroma_status = "up"
    /\ retriever = [pc |-> "new", chroma_searcher |-> FALSE,
                    bm25_retriever |-> FALSE, failed |-> "none"]
    /\ requests = [c \in Callers |-> Idle]

\* A caller waiting for the vector searcher gets its answer if the searcher
\* can answer again and again: the call's thread runs.  Nothing obliges the
\* collaborator to answer at all.
SpecTimeout ==
    /\ InitTimeout
    /\ [][NextServing]_vars
    /\ \A c \in Callers : SF_vars(StepChroma(c))

\* --- the same stores queried again and again --------------------------------
\* One index, one vector collection and one agendas table, none of which
\* changes; the retriever is constructed, and constructed again; two callers
\* of retrieve_documents and the callers of /api/search repeat their queries.
RerunHits == { Hit("A", 20000, "m1", 0), Hit("B", 20000, "m2", 1) }

InitRerun ==
    /\ chunk_corpus = <<CorpusChunk("b1", "m1", 0, "a.json"),
                        CorpusChunk("b2", "m1", 1, "a.json"),
                        CorpusChunk("b3", "m2", 0, "b.json")>>
    /\ bm25 \in [1..Len(chunk_corpus) -> [Vocabulary -> ServingWeights]]
    /\ index_dir = [bm25_index |-> Pickle(bm25),
                    bm25_chunk_corpus |-> Pickle(chunk_corpus)]
    /\ chroma_collection \in
          {h \in SeqsUpTo(RerunHits, Cardinality(RerunHits)) :
              \A i, j \in 1..Len(h) : h[i] = h[j] => i = j}
    /\ agendas_table \in {{"A"}, {"A", "B"}}
    /\ NoServing
    /\ source_files = [i \in 1..Len(FileNames) |-> NoFile]
    /\ build_pc = "start"
    /\ build_mem = [chunk_corpus |-> <<>>, bm25 |-> BM25Okapi(<<>>)]
    /\ loader = NoLoad /\ NoOffline
    /\ chroma_status = "up"
    /\ retriever = [pc |-> "new", chroma_searcher |-> FALSE,
                    bm25_retriever |-> FALSE, failed |-> "none"]
    /\ requests = [c \in Callers |-> Idle]

NextRerun ==
    \/ Construct
    \/ Restart
    \/ \E c \in Callers, query \in RetrieverQueries, n_results \in 1..MaxN :
          Call(c, query, n_results)
    \/ \E c \in Callers : StepBM25(c)
    \/ \E c \in Callers : StepChroma(c)
    \/ \E c \in Callers : StepFuse(c)
    \/ \E n \in 1..MaxN : ApiSearch(n)

SpecRerun == InitRerun /\ [][NextRerun]_vars

\* --- build_bm25_index ------------------------------------------------------
ChunkTexts == {Absent, "seoul"}
ChunkData == [text : ChunkTexts, agenda : {Absent, "a1"}]
FileData == [kind : {"json"}, title : {Absent, "m1", "m2"},
             chunks : SeqsUpTo(ChunkData, MaxChunks)]
               \cup {Malformed, NoFile}

InitBuild ==
    /\ chunk_corpus = <<>>
    /\ bm25 = <<>>
    /\ chroma_collection = <<>>
    /\ agendas_table = {}
    /\ NoServing /\ Ready
    /\ source_files \in [1..Len(FileNames) -> FileData]
    /\ build_pc = "start"
    /\ build_mem = [chunk_corpus |-> <<>>, bm25 |-> BM25Okapi(<<>>)]
    /\ index_dir = [bm25_index |-> NoPickle, bm25_chunk_corpus |-> NoPickle]

NextBuild == BuildLoad \/ BuildDumpIndex \/ BuildDumpCorpus

SpecBuild == InitBuild /\ [][NextBuild]_vars

\* --- the fusion of two lists, whatever the searchers returned ---------------
\* Chunks of three ids, and one whose dict has no 'chunk_index'.
FusionIds == {<<"m1", 0>>, <<"m1", 1>>, <<"m2", 0>>, <<"m1", AbsentIndex>>}
FusionBM25Chunks ==
    { [text |-> "b", meeting_title |-> id[1], chunk_index |-> id[2], score |-> 7] :
        id \in FusionIds }
FusionChromaChunks ==
    { [text |-> "v", meeting_title |-> id[1], chunk_index |-> id[2],
       similarity |-> 90000] : id \in FusionIds }

InitFusion ==
    /\ chunk_corpus = <<>>
    /\ bm25 = <<>>
    /\ chroma_collection = <<>>
    /\ agendas_table = {}
    /\ NoServing /\ NoBuild /\ Ready

NextFusion == Fuse(FusionBM25Chunks, FusionChromaChunks, MaxHits)

SpecFusion == InitFusion /\ [][NextFusion]_vars

\* --- process_all_txt_files_async: the tasks of gather() created -------------
InitBatch ==
    /\ chunk_corpus = <<>>
    /\ bm25 = <<>>
    /\ chroma_collection = <<>>
    /\ agendas_table = {}
    /\ NoServing /\ NoBuild
    /\ chroma_status = "up"
    /\ retriever = BothLoaded
    /\ requests = [c \in Callers |-> Idle]
    /\ loader = NoLoad
    /\ handler = [pc |-> "idle"] /\ connections = <<>>
    /\ agenda_build = [pc |-> "idle"] /\ hybrid = [pc |-> "idle"]
    /\ \E files \in 0..MaxFiles, max_concurrent \in 1..MaxConcurrent :
          batch = [max_concurrent |-> max_concurrent,
                   semaphore      |-> max_concurrent,
                   tasks          |-> [t \in 1..files |-> "waiting"]]

NextBatch ==
    \/ \E t \in 1..Len(batch.tasks) : Enter(t)
    \/ \E t \in 1..Len(batch.tasks), success \in BOOLEAN : Leave(t, success)

SpecBatch == InitBatch /\ [][NextBatch]_vars

\* --- the handlers that read the agendas database ----------------------------
InitSqlite ==
    /\ chunk_corpus = <<>>
    /\ bm25 = <<>>
    /\ chroma_collection = <<>>
    /\ agendas_table = {}
    /\ NoServing /\ NoBuild /\ Ready

NextSqlite ==
    \/ \E selects \in 0..MaxN : Connect("search", selects)
    \/ Connect("detail", 2)
    \/ \E raises, found \in BOOLEAN : Execute(raises, found)
    \/ Close

SpecSqlite == InitSqlite /\ [][NextSqlite]_vars

\* --- one meeting JSON file read by both agenda builders ---------------------
\* Chunks with an agenda, with an empty one or with none; with a speaker or
\* without; and a chunk that has no text.
MeetingChunks ==
    { [agenda |-> a, text |-> "t", speaker |-> sp] :
        a \in {"a1", "a2", "", Absent}, sp \in {"s1", Absent} }
      \cup { [agenda |-> "a1", text |-> Absent, speaker |-> "s1"] }

InitAgendas ==
    /\ chunk_corpus = <<>>
    /\ bm25 = <<>>
    /\ chroma_collection = <<>>
    /\ agendas_table = {}
    /\ NoServing /\ NoBuild
    /\ chroma_status = "up"
    /\ retriever = BothLoaded
    /\ requests = [c \in Callers |-> Idle]
    /\ loader = NoLoad
    /\ batch = NoBatch /\ handler = [pc |-> "idle"] /\ connections = <<>>
    /\ hybrid = [pc |-> "idle"]
    /\ \E chunks \in SeqsUpTo(MeetingChunks, MaxHits) :
          agenda_build = [pc |-> "loaded", meeting_id |-> "meeting_1",
                          chunks |-> chunks,
                          db |-> [outcome |-> "none"], chroma |-> [outcome |-> "none"]]

NextAgendas == InsertAgendasToDb \/ InsertAgendasToChromadb

SpecAgendas == InitAgendas /\ [][NextAgendas]_vars

\* --- the hybrid parser on a crawled page and on a txt file -------------------
\* Bodies of up to MaxHits lines, not all of them empty.  The URL path parses
\* the header, the separator, an empty line and the crawled text (line 635);
\* the txt path reads a file of that layout, with or without the empty line,
\* and hands stage 1 the stripped text after the separator (lines 732-734).
InitHybrid ==
    /\ chunk_corpus = <<>>
    /\ bm25 = <<>>
    /\ chroma_collection = <<>>
    /\ agendas_table = {}
    /\ NoServing /\ NoBuild
    /\ chroma_status = "up"
    /\ retriever = BothLoaded
    /\ requests = [c \in Callers |-> Idle]
    /\ loader = NoLoad
    /\ batch = NoBatch /\ handler = [pc |-> "idle"] /\ connections = <<>>
    /\ agenda_build = [pc |-> "idle"]
    /\ \E body \in SeqsUpTo({"", "l1", "l2"}, MaxHits), gap \in SeqsUpTo({""}, 1) :
          LET header == <<"title", "url", Separator>>
          IN  /\ \E i \in 1..Len(body) : body[i] # ""
              /\ \/ hybrid = [pc |-> "read", path |-> "url",
                              txt_content |-> body,
                              content |-> header \o <<"">> \o body]
                 \/ hybrid = [pc |-> "read", path |-> "txt",
                              txt_content |-> Strip(<<"">> \o gap \o body),
                              content |-> header \o gap \o body]

NextHybrid == ExtractAgendaMapping \/ ParseWithPureCode

SpecHybrid == InitHybrid /\ [][NextHybrid]_vars

\* --- build_bm25_index run again while a BM25Retriever loads ----------------
\* The corpus of the build before, whose two files are in the directory.
PreviousCorpus == <<CorpusChunk("seoul", "m0", 0, "a.json")>>

\* Source files that parse, have a title, and whose chunks all have a text.
RebuildFiles ==
    { d \in FileData : /\ d # Malformed
                       /\ d # NoFile =>
                            /\ d.title # Absent
                            /\ \A i \in 1..Len(d.chunks) : d.chunks[i].text # Absent }

InitRebuild ==
    /\ chunk_corpus = <<>>
    /\ bm25 = <<>>
    /\ chroma_collection = <<>>
    /\ agendas_table = {}
    /\ NoServing
    /\ chroma_status = "up"
    /\ retriever = BothLoaded
    /\ requests = [c \in Callers |-> Idle]
    /\ loader = NoLoad /\ NoOffline
    /\ source_files \in [1..Len(FileNames) -> RebuildFiles]
    /\ build_pc = "start"
    /\ build_mem = [chunk_corpus |-> <<>>, bm25 |-> BM25Okapi(<<>>)]
    /\ index_dir \in
         { [bm25_index |-> NoPickle, bm25_chunk_corpus |-> NoPickle],
           [bm25_index |-> Pickle(BM25Okapi(TokenizedCorpus(PreviousCorpus))),
            bm25_chunk_corpus |-> Pickle(PreviousCorpus)] }

NextRebuild ==
    \/ BuildLoad
    \/ BuildDumpIndex
    \/ BuildDumpCorpus
    \/ LoadIndex
    \/ LoadCorpus
    \/ LoadAgain

SpecRebuild == InitRebuild /\ [][NextRebuild]_vars

(***************************************************************************)
(* Claims about Retriever.retrieve_documents, checked under SpecRetriever. *)
(***************************************************************************)
Retrieved == retrieve_call # NoCall

\* The RRF terms one retriever's list gives a chunk id: one per position at
\* which the list holds it, 1/(k + r + 1) for the 0-based position r.
ListTerms(list, chunk_id, k) ==
    SumSeq([i \in 1..Len(list) |->
               IF <<list[i].meeting_title, list[i].chunk_index>> = chunk_id
               THEN RRFScale(k) \div (k + (i - 1) + 1) ELSE 0])

Occurrences(list, chunk_id) ==
    {i \in 1..Len(list) : <<list[i].meeting_title, list[i].chunk_index>> = chunk_id}

ScoreOf(chunk_id) ==
    LET e == CHOOSE e \in Range(retrieve_call.rrf_scores) : e.chunk_id = chunk_id
    IN  e.score

ScanOrder == 
    [i \in 1..Len(retrieve_call.bm25_chunks) + Len(retrieve_call.chroma_chunks) |->
        IF i <= Len(retrieve_call.bm25_chunks)
        THEN <<retrieve_call.bm25_chunks[i].meeting_title,
               retrieve_call.bm25_chunks[i].chunk_index>>
        ELSE <<retrieve_call.chroma_chunks[i - Len(retrieve_call.bm25_chunks)].meeting_title,
               retrieve_call.chroma_chunks[i - Len(retrieve_call.bm25_chunks)].chunk_index>>]

FirstMet(chunk_id) ==
    CHOOSE i \in 1..Len(ScanOrder) :
        /\ ScanOrder[i] = chunk_id
        /\ \A j \in 1..i - 1 : ScanOrder[j] # chunk_id

\* C2: the fused ids come out in descending order of fused score, ids of
\* equal score in the order they were first met scanning the BM25 list and
\* then the vector list; the returned items are the head of that order; and
\* for lexical = [c1, c2], vector = [c2, c3], k = 60 the order is c2, c1, c3.
C2_DescendingWithFirstMetTieBreak ==
    Retrieved =>
        LET c   == retrieve_call
            ids == c.sorted_chunk_ids
        IN  /\ Len(ids) = Len(c.rrf_scores)
            /\ Range(ids) = {e.chunk_id : e \in Range(c.rrf_scores)}
            /\ \A i, j \in 1..Len(ids) :
                 i < j => \/ ScoreOf(ids[i]) > ScoreOf(ids[j])
                          \/ /\ ScoreOf(ids[i]) = ScoreOf(ids[j])
                             /\ FirstMet(ids[i]) < FirstMet(ids[j])
            /\ Len(c.final_results) = Min(c.n_results, Len(ids))
            /\ \A i \in 1..Len(c.final_results) :
                 /\ c.final_results[i].similarity = ScoreOf(ids[i])
                 /\ c.final_results[i].source = ids[i][1]
            /\ ( /\ c.k = 60
                 /\ [i \in 1..Len(c.bm25_chunks) |->
                       <<c.bm25_chunks[i].meeting_title, c.bm25_chunks[i].chunk_index>>]
                      = << <<"m1", 0>>, <<"m1", 1>> >>
                 /\ [i \in 1..Len(c.chroma_chunks) |->
                       <<c.chroma_chunks[i].meeting_title, c.chroma_chunks[i].chunk_index>>]
                      = << <<"m1", 1>>, <<"m2", 0>> >> )
                 => ids = << <<"m1", 1>>, <<"m1", 0>>, <<"m2", 0>> >>

\* A call whose fused ids hold a tie between an id first met in the BM25
\* list and an id first met in the vector list, below a higher-scored id.
C2_Witness ==
    /\ Retrieved
    /\ Len(retrieve_call.sorted_chunk_ids) = 3
    /\ LET ids == retrieve_call.sorted_chunk_ids
       IN  /\ ScoreOf(ids[1]) > ScoreOf(ids[2])
           /\ ScoreOf(ids[2]) = ScoreOf(ids[3])
           /\ Occurrences(retrieve_call.bm25_chunks, ids[2]) # {}
           /\ Occurrences(retrieve_call.bm25_chunks, ids[3]) = {}

\* The example of the claim is a call the retriever can make.
C2_ExampleReached ==
    /\ Retrieved
    /\ [i \in 1..Len(retrieve_call.bm25_chunks) |->
          retrieve_call.bm25_chunks[i].chunk_index] = <<0, 1>>
    /\ retrieve_call.sorted_chunk_ids = << <<"m1", 1>>, <<"m1", 0>>, <<"m2", 0>> >>

(***************************************************************************)
(* Claims about POST /api/search, checked under SpecSearch.                *)
(***************************************************************************)
Searched == search_call # NoCall
Answered == Searched /\ search_call.status = 200

\* The agenda ids the returned chunk hits carry, and each one's hits.
GroupIds(hits) == {h.agenda_id : h \in Range(hits)} \ {Absent, ""}
SimilaritiesOf(hits, agenda_id) ==
    {SimOne - h.distance : h \in {x \in Range(hits) : x.agenda_id = agenda_id}}
Highest(S) == CHOOSE m \in S : \A x \in S : x <= m
SumOfHits(hits, agenda_id) ==
    SumSeq([i \in 1..Len(hits) |->
              IF hits[i].agenda_id = agenda_id THEN SimOne - hits[i].distance ELSE 0])
GroupScore(agenda_id) ==
    LET e == CHOOSE e \in Range(search_call.agenda_scores) : e.agenda_id = agenda_id
    IN  e.similarity

\* C3: the score kept for an agenda_id is the maximum, not the sum, of the
\* similarities of the returned hits that carry it; hits (A, 0.8), (A, 0.3),
\* (B, 0.5) give A = 0.8 and B = 0.5, and the top-1 result is A.
C3_GroupKeepsMaximum ==
    Answered =>
        LET c == search_call
        IN  /\ \A e \in Range(c.agenda_scores) :
                 e.similarity = Highest(SimilaritiesOf(c.chunk_results, e.agenda_id))
            /\ ( /\ Len(c.chunk_results) = 3
                 /\ {<<h.agenda_id, SimOne - h.distance>> : h \in Range(c.chunk_results)}
                      = {<<"A", 80000>>, <<"A", 30000>>, <<"B", 50000>>} )
                 => /\ Range(c.agenda_scores)
                         = {[agenda_id |-> "A", similarity |-> 80000],
                            [agenda_id |-> "B", similarity |-> 50000]}
                    /\ c.request_n = 1 =>
                         /\ [i \in 1..Len(c.sorted_agendas) |-> c.sorted_agendas[i].agenda_id]
                              = <<"A">>
                         /\ "A" \in agendas_table =>
                              c.results = <<[agenda_id |-> "A", similarity |-> 80000]>>

\* The hits of the claim's example, asked for one result: the maximum and
\* the sum of group A differ there.
C3_Witness ==
    /\ Answered
    /\ search_call.request_n = 1
    /\ {<<h.agenda_id, SimOne - h.distance>> : h \in Range(search_call.chunk_results)}
         = {<<"A", 80000>>, <<"A", 30000>>, <<"B", 50000>>}
    /\ search_call.results = <<[agenda_id |-> "A", similarity |-> 80000]>>
    /\ SumOfHits(search_call.chunk_results, "A") # GroupScore("A")

\* C4 as stated, for a count N >= 1: the number of results is exactly
\* min(N, distinct groups).
C4_ExactlyMinOfNAndGroups ==
    (Answered /\ search_call.request_n >= 1) =>
        Len(search_call.results)
            = Min(search_call.request_n, Cardinality(GroupIds(search_call.chunk_results)))

\* C4, amended: for N >= 1 the handler selects exactly min(N, distinct
\* agenda ids among the min(20, 4N) fetched hits) agendas and returns those
\* of them that have a row in the agendas table: min(N, groups) results
\* when each selected agenda has a row, one fewer for each that has none.
C4_MinOfNAndGroupsLessMisses ==
    (Searched /\ search_call.request_n >= 1) =>
        LET c        == search_call
            n        == c.request_n
            groups   == Cardinality(GroupIds(c.chunk_results))
            selected == {a.agenda_id : a \in Range(c.sorted_agendas)}
        IN  /\ c.status = 200
            /\ Len(c.chunk_results) = Min(Len(chroma_collection), Min(20, 4 * n))
            /\ Len(c.sorted_agendas) = Min(n, groups)
            /\ Cardinality(selected) = Min(n, groups)
            /\ Len(c.results) = Min(n, groups) - Cardinality(selected \ agendas_table)
            /\ selected \subseteq agendas_table => Len(c.results) = Min(n, groups)

\* More groups than the count asked for, and a selected agenda without a row.
C4_Witness ==
    /\ Answered
    /\ search_call.request_n = 2
    /\ Cardinality(GroupIds(search_call.chunk_results)) = 3
    /\ Len(search_call.results) = 1

\* The rank of an agenda's first hit in the vector store's answer.
FirstHit(agenda_id) ==
    CHOOSE i \in 1..Len(search_call.chunk_results) :
        /\ search_call.chunk_results[i].agenda_id = agenda_id
        /\ \A j \in 1..i - 1 : search_call.chunk_results[j].agenda_id # agenda_id

\* C5 as stated: the returned similarities strictly decrease.
C5_StrictlyDescending ==
    Answered =>
        \A i, j \in 1..Len(search_call.results) :
            i < j => search_call.results[i].similarity > search_call.results[j].similarity

\* C5, amended: the returned similarities never increase; agendas whose
\* group scores are equal come in the order of their first chunk hit.
C5_DescendingTiesByFirstHit ==
    Answered =>
        LET res == search_call.results
        IN  \A i, j \in 1..Len(res) :
              i < j =>
                /\ res[i].similarity >= res[j].similarity
                /\ \/ GroupScore(res[i].agenda_id) > GroupScore(res[j].agenda_id)
                   \/ /\ GroupScore(res[i].agenda_id) = GroupScore(res[j].agenda_id)
                      /\ FirstHit(res[i].agenda_id) < FirstHit(res[j].agenda_id)

\* Three results: two agendas of equal score, and a third whose lower score
\* rounds to the same four decimals as another's.
C5_Witness ==
    /\ Answered
    /\ Len(search_call.results) = 3
    /\ \E i, j \in 1..3 :
         /\ i < j
         /\ GroupScore(search_call.results[i].agenda_id)
              = GroupScore(search_call.results[j].agenda_id)
    /\ \E i, j \in 1..3 :
         /\ i < j
         /\ GroupScore(search_call.results[i].agenda_id)
              > GroupScore(search_call.results[j].agenda_id)
         /\ search_call.results[i].similarity = search_call.results[j].similarity

\* C9: a hit whose metadata has no agenda_id, missing or empty, is skipped:
\* it forms no group, the groups are those of the other hits, and the
\* request is answered.
C9_HitsWithoutAgendaIdSkipped ==
    (Searched /\ search_call.request_n >= 0) =>
        LET c == search_call
        IN  /\ c.status = 200
            /\ \A e \in Range(c.agenda_scores) : e.agenda_id \notin {Absent, ""}
            /\ {e.agenda_id : e \in Range(c.agenda_scores)}
                 = {h.agenda_id : h \in {x \in Range(c.chunk_results) :
                                            x.agenda_id \in AgendaIds}}
            /\ Len(c.agenda_scores) = Cardinality(GroupIds(c.chunk_results))
            /\ \A r \in Range(c.results) : r.agenda_id \in AgendaIds

\* A hit with no agenda_id key, a hit with an empty one, and a hit of agenda
\* A that is returned.
C9_Witness ==
    /\ Answered
    /\ {h.agenda_id : h \in Range(search_call.chunk_results)} = {Absent, "", "A"}
    /\ Len(search_call.results) = 1
    /\ search_call.results[1].agenda_id = "A"

\* The place of an agenda among the selected ones.
SelectedAt(agenda_id) ==
    CHOOSE i \in 1..Len(search_call.sorted_agendas) :
        search_call.sorted_agendas[i].agenda_id = agenda_id

\* C10: a selected agenda_id without a row drops only that result: the
\* request is answered, and every other selected agenda that has a row is
\* returned, once, in the order of selection.
C10_LookupMissDropsOnlyThatResult ==
    (Searched /\ search_call.request_n >= 0) =>
        LET c        == search_call
            selected == {a.agenda_id : a \in Range(c.sorted_agendas)}
        IN  /\ c.status = 200
            /\ {r.agenda_id : r \in Range(c.results)} = selected \cap agendas_table
            /\ Len(c.results) = Cardinality(selected \cap agendas_table)
            /\ \A i, j \in 1..Len(c.results) :
                 i < j => SelectedAt(c.results[i].agenda_id)
                            < SelectedAt(c.results[j].agenda_id)

\* Three agendas selected, the second without a row, the other two returned.
C10_Witness ==
    /\ Answered
    /\ Len(search_call.sorted_agendas) = 3
    /\ search_call.sorted_agendas[2].agenda_id \notin agendas_table
    /\ [i \in 1..Len(search_call.results) |-> search_call.results[i].agenda_id]
         = <<search_call.sorted_agendas[1].agenda_id,
             search_call.sorted_agendas[3].agenda_id>>

(***************************************************************************)
(* Claims about BM25Retriever.search, checked under SpecBM25.              *)
(***************************************************************************)
BM25Searched == bm25_call # NoCall

\* The corpus position a returned chunk was copied from.
CorpusIndex(chunk) ==
    CHOOSE i \in 1..Len(chunk_corpus) :
        /\ chunk_corpus[i].doc_path = chunk.doc_path
        /\ chunk_corpus[i].chunk_index = chunk.chunk_index

\* C6: search returns only chunks whose BM25 score is strictly greater than
\* 0, in descending order of score; a chunk of zero or negative score is
\* never in the result.
C6_OnlyPositiveScoresDescending ==
    BM25Searched =>
        LET res == bm25_call.results
        IN  /\ \A j \in 1..Len(res) :
                 /\ res[j].score > 0
                 /\ res[j].score = bm25_call.doc_scores[CorpusIndex(res[j])]
            /\ \A i \in 1..Len(chunk_corpus) :
                 bm25_call.doc_scores[i] <= 0 =>
                     \A j \in 1..Len(res) : CorpusIndex(res[j]) # i
            /\ \A j, l \in 1..Len(res) : j < l => res[j].score >= res[l].score

\* A call that asked for every chunk, returned two of different score, the
\* higher first, and left out the chunk of negative score.
C6_Witness ==
    /\ BM25Searched
    /\ bm25_call.n_results = 3
    /\ Len(bm25_call.results) = 2
    /\ bm25_call.results[1].score > bm25_call.results[2].score
    /\ \E i \in 1..Len(chunk_corpus) : bm25_call.doc_scores[i] < 0

\* C7: when the tokenizer yields no token for the query, search returns an
\* empty list.
C7_EmptyQueryGivesNoResult ==
    (BM25Searched /\ bm25_call.tokenized_query = <<>>) => bm25_call.results = <<>>

\* An empty token list on an index that returns chunks for another query,
\* with room for results.
C7_Witness ==
    /\ BM25Searched
    /\ bm25_call.tokenized_query = <<>>
    /\ bm25_call.n_results = 3
    /\ bm25_call.results = <<>>
    /\ \A i \in 1..Len(bm25) : bm25[i]["seoul"] > 0

(***************************************************************************)
(* Claims about build_bm25_index, checked under SpecBuild.                 *)
(***************************************************************************)
Loaded == build_pc \in {"built", "index_written", "done", "returned"}

\* The chunks of the source files, as (file, position) pairs.
SourceChunks ==
    {<<f, idx>> \in (1..Len(FileNames)) \X (0..MaxChunks - 1) :
        /\ source_files[f].kind = "json"
        /\ idx < Len(source_files[f].chunks)}

ChunkAt(fc) == source_files[fc[1]].chunks[fc[2] + 1]

\* The source chunks the built corpus holds.
Indexed ==
    {fc \in SourceChunks :
        \E e \in Range(build_mem.chunk_corpus) :
            e.doc_path = FileNames[fc[1]] /\ e.chunk_index = fc[2]}

SearcherReturned == searcher_call # NoCall /\ searcher_call.outcome = "returned"
InUnitInterval(similarity) == 0 <= similarity /\ similarity <= SimOne

\* C11: every similarity computed from a vector distance lies in [0, 1],
\* whatever the raw distance: the ones MeetingSearcher._format_results
\* returns, the ones the /api/search handler computes for each hit and keeps
\* for each agenda, and the rounded ones of its response.
C11_SimilarityInUnitInterval ==
    /\ SearcherReturned =>
         \A r \in Range(searcher_call.results) : InUnitInterval(r.similarity)
    /\ Answered =>
         /\ \A i \in 1..Len(search_call.similarities) :
              InUnitInterval(search_call.similarities[i])
         /\ \A e \in Range(search_call.agenda_scores) : InUnitInterval(e.similarity)
         /\ \A r \in Range(search_call.results) : InUnitInterval(r.similarity)

\* C12: for every stored chunk the vector store returns to both, the
\* similarity the /api/search handler computes from its distance equals the
\* similarity MeetingSearcher._format_results computes from it.
C12_OneCanonicalConversion ==
    (Answered /\ SearcherReturned) =>
        \A i \in 1..Min(Len(search_call.similarities), Len(searcher_call.results)) :
            search_call.similarities[i] = searcher_call.results[i].similarity

(***************************************************************************)
(* Claims about the Retriever's construction and its callers, checked      *)
(* under SpecServing.                                                      *)
(***************************************************************************)
Done(c) == requests[c].pc \in {"returned", "raised"}

\* What retrieve_documents would return from the vector searcher alone, and
\* from the BM25 retriever alone.
VectorOnly(n_results) ==
    FinalResults(
        SortedChunkIds(RRFScores(<<>>, ChromaSearch(n_results * CandidateFactor),
                                 DefaultK)),
        n_results)
LexicalOnly(query, n_results) ==
    FinalResults(
        SortedChunkIds(RRFScores(BM25Search(query, n_results * CandidateFactor),
                                 <<>>, DefaultK)),
        n_results)

\* C13: when the BM25 index could not be loaded at construction and the
\* vector searcher could, a later retrieve_documents call made while the
\* vector collaborator is up returns the results of the vector searcher
\* alone.
C13_VectorOnlyMode ==
    \A c \in Callers :
        ( /\ requests[c].pc = "returned"
          /\ requests[c].mode = "bm25"
          /\ requests[c].vector = "up" )
        => requests[c].value = VectorOnly(requests[c].n_results)

\* C14: when the vector collaborator was unreachable at construction, or is
\* during the query, while the BM25 index files are there, the call returns
\* the results of the BM25 retriever alone: it neither raises nor returns
\* nothing where BM25 has results.
C14_LexicalOnlyMode ==
    \A c \in Callers :
        ( /\ Done(c)
          /\ IndexFilesPresent
          /\ \/ requests[c].mode = "chroma"
             \/ requests[c].mode = "none" /\ requests[c].vector = "down" )
        => /\ requests[c].pc = "returned"
           /\ requests[c].value = LexicalOnly(requests[c].query, requests[c].n_results)

\* What happened to a finished call: one retriever was down ("degraded"),
\* both were ("failed"), both ran and nothing matched ("nomatch"), or there
\* are results ("matched").
Outcome(c) ==
    LET r == requests[c]
    IN  IF r.mode \in {"bm25", "chroma"} THEN "degraded"
        ELSE IF r.mode = "both" THEN "failed"
        ELSE IF r.pc = "raised" THEN "degraded"
        ELSE IF r.value = <<>> THEN "nomatch"
        ELSE "matched"

\* What the caller gets: the returned list, or an exception.
Received(c) ==
    IF requests[c].pc = "raised" THEN [raised |-> TRUE]
    ELSE [raised |-> FALSE, value |-> requests[c].value]

\* C15: two finished calls of which one met partial degradation, one total
\* failure or one an empty match, each a different one of the three, never
\* hand their callers the same thing.
C15_OutcomesDistinguishable ==
    \A c1, c2 \in Callers :
        ( /\ Done(c1) /\ Done(c2)
          /\ Outcome(c1) # Outcome(c2)
          /\ {Outcome(c1), Outcome(c2)} \subseteq {"degraded", "failed", "nomatch"} )
        => Received(c1) # Received(c2)

(***************************************************************************)
(* Claim about time bounds of the retriever calls, checked under           *)
(* SpecTimeout.                                                            *)
(***************************************************************************)
\* C16: a query waiting for its vector call always gets past it and goes on
\* to fuse what it has: the call returns in time, or is given up after its
\* timeout and counted as an empty list; the query neither fails nor waits
\* forever.
C16_QueryCompletesDespiteSlowRetriever ==
    \A c \in Callers :
        (requests[c].pc = "chroma") ~> (requests[c].pc \in {"fuse", "returned"})

(***************************************************************************)
(* Claim about a rebuild during loading, checked under SpecRebuild.        *)
(***************************************************************************)
\* C17: a BM25Retriever that has loaded holds a scoring structure and a
\* chunk corpus of one and the same completed build: the structure is the
\* index of exactly that corpus, so it ranks as many positions as the corpus
\* has entries and each position's term counts are those of its entry.
C17_LoadedIndexIsOfOneBuild ==
    loader.pc = "loaded" =>
        /\ loader.bm25.corpus_size = Len(loader.chunk_corpus)
        /\ loader.bm25 = BM25Okapi(TokenizedCorpus(loader.chunk_corpus))

(***************************************************************************)
(* Claims about what serving writes and repeats, checked under SpecServing. *)
(***************************************************************************)
\* The callers that hold BM25 results.
HoldsBM25Chunks(c) == requests[c].pc \in {"chroma", "fuse"} \/
                      (requests[c].pc \in {"returned", "raised"} /\ requests[c].mode = "none")

\* C18: whatever calls have run or are running, in whatever interleaving,
\* the loaded index is what was loaded: self.bm25 and self.chunk_corpus are
\* the contents of the index files, no corpus entry has a 'score' or a
\* 'similarity', and the scores are on the chunks the calls hold.
C18_ServingLeavesIndexUnchanged ==
    /\ IndexFilesPresent =>
         /\ bm25 = index_dir.bm25_index.data
         /\ chunk_corpus = index_dir.bm25_chunk_corpus.data
    /\ \A i \in 1..Len(chunk_corpus) :
         DOMAIN chunk_corpus[i] = {"text", "meeting_title", "chunk_index", "doc_path"}
    /\ \A c \in Callers :
         HoldsBM25Chunks(c) =>
             \A j \in 1..Len(requests[c].bm25_chunks) :
                 /\ requests[c].bm25_chunks[j].score > 0
                 /\ requests[c].bm25_objects[j] = 0

\* One caller has its fused results, drawn from BM25 chunks that carry a
\* score, while the other, between its two retriever calls, holds scored
\* chunks of the same corpus entries.
C18_Witness ==
    /\ requests["c1"].pc = "returned"
    /\ requests["c1"].mode = "none"
    /\ Len(requests["c1"].bm25_chunks) >= 2
    /\ requests["c1"].value # <<>>
    /\ requests["c2"].pc = "chroma"
    /\ requests["c2"].bm25_chunks = requests["c1"].bm25_chunks

\* Two finished calls of retrieve_documents with the same arguments.
SameCall(c, d) ==
    /\ requests[c].pc = "returned" /\ requests[d].pc = "returned"
    /\ requests[c].query = requests[d].query
    /\ requests[c].n_results = requests[d].n_results

\* /api/search answers a request whose n_results the request before it had.
SameRequest ==
    /\ search_call # NoCall /\ search_call' # NoCall
    /\ search_call'.request_n = search_call.request_n

FirstOf(list, chunk_id) ==
    CHOOSE i \in Occurrences(list, chunk_id) :
        \A j \in Occurrences(list, chunk_id) : i <= j

\* C20: a chunk id that the BM25 list holds is stored, and returned, with the
\* text and title of its first BM25 chunk, whether or not the vector list
\* holds it too; an id that only the vector list holds is stored and
\* returned with the text and title of its first vector chunk.
C20_PayloadFromFirstList ==
    Retrieved =>
        LET c == retrieve_call
        IN  /\ \A e \in Range(c.rrf_scores) :
                 IF Occurrences(c.bm25_chunks, e.chunk_id) # {}
                 THEN LET b == c.bm25_chunks[FirstOf(c.bm25_chunks, e.chunk_id)]
                      IN  /\ e.chunk.origin = "bm25"
                          /\ e.chunk.text = b.text
                          /\ e.chunk.meeting_title = b.meeting_title
                 ELSE LET v == c.chroma_chunks[FirstOf(c.chroma_chunks, e.chunk_id)]
                      IN  /\ e.chunk.origin = "chroma"
                          /\ e.chunk.text = v.text
                          /\ e.chunk.meeting_title = v.meeting_title
            /\ \A j \in 1..Len(c.final_results) :
                 LET id   == c.sorted_chunk_ids[j]
                     from == IF Occurrences(c.bm25_chunks, id) # {}
                             THEN c.bm25_chunks[FirstOf(c.bm25_chunks, id)]
                             ELSE c.chroma_chunks[FirstOf(c.chroma_chunks, id)]
                 IN  /\ c.final_results[j].text = from.text
                     /\ c.final_results[j].source = from.meeting_title

\* A call returned two chunks: one that both lists hold, with its BM25 text,
\* and one that only the vector list holds, with the vector text.
C20_Witness ==
    /\ Retrieved
    /\ Len(retrieve_call.final_results) = 2
    /\ \E i, j \in 1..2 :
          /\ Occurrences(retrieve_call.bm25_chunks, retrieve_call.sorted_chunk_ids[i]) # {}
          /\ Occurrences(retrieve_call.chroma_chunks, retrieve_call.sorted_chunk_ids[i]) # {}
          /\ retrieve_call.final_results[i].text \in {"b1", "b2", "b3"}
          /\ Occurrences(retrieve_call.bm25_chunks, retrieve_call.sorted_chunk_ids[j]) = {}
          /\ retrieve_call.final_results[j].text = "v"

(***************************************************************************)
(* Claims about the fusion of two lists, checked under SpecFusion.          *)
(***************************************************************************)
\* The ids of a list's chunks that have one.
IdsOf(list) ==
    {<<list[i].meeting_title, list[i].chunk_index>> :
        i \in {i \in 1..Len(list) : HasChunkId(list[i])}}

\* C21: a chunk adds to its id's score the term of the place it has in the
\* list as the searcher returned it, counted from 0 and counting the chunks
\* before it that were skipped for having no id: an id that one list holds
\* once, at place i, and the other list does not hold, scores 1/(k + i).
C21_RankIsPlaceInReturnedList ==
    Retrieved =>
        LET c == retrieve_call
            S == RRFScale(c.k)
        IN  \A e \in Range(c.rrf_scores) :
              /\ \A i \in 1..Len(c.chroma_chunks) :
                   ( /\ Occurrences(c.chroma_chunks, e.chunk_id) = {i}
                     /\ Occurrences(c.bm25_chunks, e.chunk_id) = {} )
                   => e.score * (c.k + i) = S
              /\ \A i \in 1..Len(c.bm25_chunks) :
                   ( /\ Occurrences(c.bm25_chunks, e.chunk_id) = {i}
                     /\ Occurrences(c.chroma_chunks, e.chunk_id) = {} )
                   => e.score * (c.k + i) = S

\* The vector list begins with a chunk that has no id and is skipped; the
\* chunk after it, which no other place of either list holds, was fused.
C21_Witness ==
    /\ Retrieved
    /\ Len(retrieve_call.chroma_chunks) >= 2
    /\ ~HasChunkId(retrieve_call.chroma_chunks[1])
    /\ HasChunkId(retrieve_call.chroma_chunks[2])
    /\ \E e \in Range(retrieve_call.rrf_scores) :
          /\ Occurrences(retrieve_call.chroma_chunks, e.chunk_id) = {2}
          /\ Occurrences(retrieve_call.bm25_chunks, e.chunk_id) = {}
          /\ e.score * (DefaultK + 2) = RRFScale(DefaultK)

(***************************************************************************)
(* Claim about the order of the steps of one call, checked under SpecRerun. *)
(***************************************************************************)
\* C22: a call of an initialized retriever has fused scores only when both
\* of its lists are there: before its vector search has returned it holds no
\* result, and the result it returns is the fusion of its BM25 list and its
\* vector list; what another caller does in between changes nothing of it.
C22_FusionAfterBothSearches ==
    \A c \in Callers :
        /\ requests[c].pc \in {"bm25", "chroma"} =>
              /\ "value" \notin DOMAIN requests[c]
              /\ "chroma_chunks" \notin DOMAIN requests[c]
        /\ requests[c].pc = "bm25" => "bm25_chunks" \notin DOMAIN requests[c]
        /\ (requests[c].pc \in {"fuse", "returned"} /\ requests[c].mode = "none") =>
              /\ {"bm25_chunks", "chroma_chunks"} \subseteq DOMAIN requests[c]
              /\ requests[c].bm25_chunks =
                    BM25Search(requests[c].query, requests[c].n_results * CandidateFactor)
              /\ requests[c].chroma_chunks =
                    ChromaSearch(requests[c].n_results * CandidateFactor)
        /\ (requests[c].pc = "returned" /\ requests[c].mode = "none") =>
              requests[c].value =
                  Fusion(requests[c].query, requests[c].n_results, DefaultK,
                         requests[c].bm25_chunks, requests[c].chroma_chunks).final_results

\* One caller has the fusion of two lists that are not empty while the
\* other, with its BM25 list in hand, waits for its vector search.
C22_Witness ==
    /\ requests["c1"].pc = "returned"
    /\ requests["c1"].mode = "none"
    /\ requests["c1"].bm25_chunks # <<>>
    /\ requests["c1"].chroma_chunks # <<>>
    /\ requests["c1"].value # <<>>
    /\ requests["c2"].pc = "chroma"
    /\ requests["c2"].bm25_chunks # <<>>

(***************************************************************************)
(* Claim about the batch conversion, checked under SpecBatch.               *)
(***************************************************************************)
Processing == {t \in 1..Len(batch.tasks) : batch.tasks[t] = "processing"}

\* C23: the number of files inside process_single_file never exceeds
\* max_concurrent, and with the semaphore's value it makes max_concurrent.
C23_AtMostMaxConcurrentProcessing ==
    /\ Cardinality(Processing) <= batch.max_concurrent
    /\ batch.semaphore >= 0
    /\ Cardinality(Processing) + batch.semaphore = batch.max_concurrent

\* More files than max_concurrent: max_concurrent of them are being
\* processed, one has finished, one that finished failed, others wait.
C23_Witness ==
    /\ Len(batch.tasks) > batch.max_concurrent + 1
    /\ Cardinality(Processing) = batch.max_concurrent
    /\ batch.max_concurrent > 1
    /\ \E t \in 1..Len(batch.tasks) : batch.tasks[t] = "failed"
    /\ \E t \in 1..Len(batch.tasks) : batch.tasks[t] = "waiting"

(***************************************************************************)
(* Claims about the fused entries of a whole call, under SpecRetriever.     *)
(***************************************************************************)
\* C24: a fused entry stands for one indexed chunk: the BM25 list of the
\* call, whose chunks are distinct entries of the corpus, holds its chunk id
\* at one place only, so the entry gets at most one term from that list.
C24_FusedKeyIsOneChunk ==
    Retrieved =>
        LET c == retrieve_call
        IN  \A e \in Range(c.rrf_scores) :
              /\ Cardinality(Occurrences(c.bm25_chunks, e.chunk_id)) <= 1
              /\ ListTerms(c.bm25_chunks, e.chunk_id, c.k) <= RRFTerm(c.k, 0)

(***************************************************************************)
(* Claim about the list a call returns, checked under SpecFusion.           *)
(***************************************************************************)
\* C25: the call returns min(n_results, number of distinct chunk ids of the
\* two lists) items, no item's 'similarity' is higher than that of the item
\* before it, and the 'similarity' of the item at place j is the fused score
\* of the chunk id at place j of the sorted ids: the sum of its rank terms.
C25_TopNByFusedScore ==
    Retrieved =>
        LET c   == retrieve_call
            ids == IdsOf(c.bm25_chunks) \cup IdsOf(c.chroma_chunks)
        IN  /\ Len(c.final_results) = Min(c.n_results, Cardinality(ids))
            /\ \A j \in 1..Len(c.final_results) - 1 :
                 c.final_results[j].similarity >= c.final_results[j + 1].similarity
            /\ \A j \in 1..Len(c.final_results) :
                 /\ c.sorted_chunk_ids[j] \in ids
                 /\ c.final_results[j].similarity = ScoreOf(c.sorted_chunk_ids[j])
                 /\ c.final_results[j].similarity =
                        ListTerms(c.bm25_chunks, c.sorted_chunk_ids[j], c.k)
                          + ListTerms(c.chroma_chunks, c.sorted_chunk_ids[j], c.k)
            /\ \A e \in Range(c.rrf_scores) :
                 \A j \in 1..Len(c.final_results) :
                     e.score <= c.final_results[j].similarity
                        \/ \E i \in 1..Len(c.final_results) :
                              c.sorted_chunk_ids[i] = e.chunk_id

\* Three ids were fused and two asked for: the two returned have different
\* fused scores, the first from both lists, the second from the BM25 list.
C25_Witness ==
    /\ Retrieved
    /\ retrieve_call.n_results = 2
    /\ Len(retrieve_call.rrf_scores) = 3
    /\ Len(retrieve_call.final_results) = 2
    /\ retrieve_call.final_results[1].similarity > retrieve_call.final_results[2].similarity
    /\ Occurrences(retrieve_call.bm25_chunks, retrieve_call.sorted_chunk_ids[1]) # {}
    /\ Occurrences(retrieve_call.chroma_chunks, retrieve_call.sorted_chunk_ids[1]) # {}
    /\ Occurrences(retrieve_call.chroma_chunks, retrieve_call.sorted_chunk_ids[2]) = {}

(***************************************************************************)
(* Claim about the size of a /api/search response, under SpecSearch.        *)
(***************************************************************************)
\* C26: the response holds no more results than the n_results of the
\* request; none for a request of 0 or of less.
C26_NeverMoreThanRequested ==
    Searched => Len(search_call.results) <= Max(0, search_call.request_n)

(***************************************************************************)
(* Claim about the SQLite connections, checked under SpecSqlite.            *)
(***************************************************************************)
\* C27: when a handler has answered, whatever its answer, the connection it
\* opened is closed: the only open connection is that of a running handler.
C27_ConnectionsClosed ==
    \A i \in 1..Len(connections) :
        connections[i] = "open" => (handler.pc = "connected" /\ handler.conn = i)

(***************************************************************************)
(* Claims about the agenda builders, checked under SpecAgendas.             *)
(***************************************************************************)
\* The builders that have run to their end on the file.
Built == {b \in {agenda_build.db, agenda_build.chroma} : b.outcome = "returned"}

\* The places (group, position) at which the groups hold a chunk index.
PlacesOf(groups, idx) ==
    {<<g, p>> \in (1..Len(groups)) \X (1..MaxHits + 1) :
        p <= Len(groups[g].chunk_indices) /\ groups[g].chunk_indices[p] = idx}

\* C28: the groups either builder makes of a meeting's chunks are a
\* partition of the chunk indices 0..len-1: each index is at one place of
\* one group, a chunk with no agenda or an empty one in the group of the
\* other remarks; the indices of a group ascend; texts, speakers and
\* chunk_indices of a group are equally long; and the chunk_count values
\* stored for the meeting add up to its number of chunks.
C28_GroupsPartitionTheChunks ==
    \A b \in Built :
        LET chunks == agenda_build.chunks
            groups == b.groups
        IN  /\ \A idx \in 0..Len(chunks) - 1 :
                 /\ Cardinality(PlacesOf(groups, idx)) = 1
                 /\ chunks[idx + 1].agenda \in {Absent, ""} =>
                       \E g \in 1..Len(groups) :
                          /\ groups[g].agenda = OtherRemarks
                          /\ \E p \in 1..Len(groups[g].chunk_indices) :
                                groups[g].chunk_indices[p] = idx
            /\ \A g \in 1..Len(groups) :
                 /\ Range(groups[g].chunk_indices) \subseteq 0..Len(chunks) - 1
                 /\ \A p \in 1..Len(groups[g].chunk_indices) - 1 :
                       groups[g].chunk_indices[p] < groups[g].chunk_indices[p + 1]
                 /\ Len(groups[g].texts) = Len(groups[g].chunk_indices)
                 /\ Len(groups[g].speakers) = Len(groups[g].chunk_indices)
                 /\ b.rows[g].chunk_count = Len(groups[g].chunk_indices)
            /\ Len(b.rows) = Len(groups)
            /\ SumSeq([g \in 1..Len(b.rows) |-> b.rows[g].chunk_count]) = Len(chunks)

\* The SQLite builder grouped three chunks: the first and the third under
\* one agenda, the second, which has no agenda, under the other remarks.
C28_Witness ==
    /\ agenda_build.db.outcome = "returned"
    /\ Len(agenda_build.chunks) = 3
    /\ agenda_build.chunks[2].agenda = Absent
    /\ Len(agenda_build.db.groups) = 2
    /\ agenda_build.db.groups[1].chunk_indices = <<0, 2>>
    /\ agenda_build.db.groups[2].agenda = OtherRemarks
    /\ agenda_build.db.groups[2].chunk_indices = <<1>>

\* C29: when both builders have run on the file, the (agenda title,
\* agenda_id) pairs of the rows and of the documents are the same set, a
\* document's id is the agenda_id of its metadata, and no two rows have one
\* agenda_id: the agenda_id of a document is that of its agenda's row.
C29_BuildersAssignTheSameIds ==
    (agenda_build.db.outcome = "returned" /\ agenda_build.chroma.outcome = "returned") =>
        LET rows == agenda_build.db.rows
            docs == agenda_build.chroma.rows
        IN  /\ {<<rows[g].agenda_title, rows[g].agenda_id>> : g \in 1..Len(rows)}
                 = {<<docs[g].agenda, docs[g].agenda_id>> : g \in 1..Len(docs)}
            /\ \A g \in 1..Len(docs) : docs[g].id = docs[g].agenda_id
            /\ \A g, h \in 1..Len(rows) : rows[g].agenda_id = rows[h].agenda_id => g = h
            /\ \A g \in 1..Len(docs) :
                 \E h \in 1..Len(rows) :
                    /\ rows[h].agenda_id = docs[g].agenda_id
                    /\ rows[h].chunk_ids = docs[g].chunk_indices

\* Both builders have run on a file of three agendas.
C29_Witness ==
    /\ agenda_build.db.outcome = "returned"
    /\ agenda_build.chroma.outcome = "returned"
    /\ Len(agenda_build.db.rows) = 3
    /\ Len(agenda_build.chroma.rows) = 3
    /\ agenda_build.chroma.rows[3].agenda_id = <<"meeting_1", "_agenda_", <<0, 0, 2>>>>

(***************************************************************************)
(* Claim about the two stages of the hybrid parser, under SpecHybrid.       *)
(***************************************************************************)
\* C30: the section stage 2 parses for a mapping entry is the lines that
\* stage 1 numbered line_start..line_end, in their order.
C30_SectionIsTheNumberedRange ==
    hybrid.pc = "parsed" =>
        hybrid.section_lines =
            [i \in 1..(hybrid.line_end - hybrid.line_start + 1) |->
                hybrid.numbered_text[hybrid.line_start + i - 1][2]]

====
